---- MODULE Spec2Model ----
(***************************************************************************)
(* A model of sora-cli (package main): the job lifecycle controller        *)
(* (main), the job client (createVideoJob, remixVideo, fetchVideoStatus,   *)
(* downloadFile) and the history store (loadHistory, saveHistory,          *)
(* addToHistory, resolveRemixVideoID).                                     *)
(*                                                                         *)
(* Go strings are modelled as sequences of one-character strings, so that  *)
(* strings.ToLower, strings.HasPrefix, filepath.Dir and string             *)
(* concatenation are computed rather than assumed.                         *)
(***************************************************************************)
EXTENDS Integers, Sequences, FiniteSets, TLC

(***************************************************************************)
(* Bounds of the model.                                                    *)
(***************************************************************************)
\* the deadline fires no later than after this many status polls
MaxPolls == 3
\* the longest response body of the content download, in bytes
MaxBody == 2

(***************************************************************************)
(* Program constants.                                                      *)
(***************************************************************************)
\* addToHistory: "Limit to 100 most recent entries"
HistoryCap == 100

(***************************************************************************)
(* String literals of the program and of the inputs.                       *)
(***************************************************************************)
s_empty == << >>
s_dash == <<"-">>
s_dot == <<".">>
s_slash == <<"/">>
s_at == <<"@">>
s_atlast == <<"@","l","a","s","t">>
s_mp4 == <<".","m","p","4">>
s_part == <<".","p","a","r","t">>
s_4 == <<"4">>
s_8 == <<"8">>
s_12 == <<"1","2">>
s_sora2 == <<"s","o","r","a","-","2">>
s_sora2pro == <<"s","o","r","a","-","2","-","p","r","o">>
s_720x1280 == <<"7","2","0","x","1","2","8","0">>
s_1280x720 == <<"1","2","8","0","x","7","2","0">>
s_succeeded == <<"s","u","c","c","e","e","d","e","d">>
s_completed == <<"c","o","m","p","l","e","t","e","d">>
s_complete == <<"c","o","m","p","l","e","t","e">>
s_done == <<"d","o","n","e">>
s_ready == <<"r","e","a","d","y">>
s_failed == <<"f","a","i","l","e","d">>
s_error == <<"e","r","r","o","r">>

UpperChars == <<"A","B","C","D","E","F","G","H","I","J","K","L","M",
                "N","O","P","Q","R","S","T","U","V","W","X","Y","Z">>
LowerChars == <<"a","b","c","d","e","f","g","h","i","j","k","l","m",
                "n","o","p","q","r","s","t","u","v","w","x","y","z">>
DigitChars == <<"0","1","2","3","4","5","6","7","8","9">>

(***************************************************************************)
(* Library functions of the Go standard library, as the program uses them. *)
(***************************************************************************)
ToLowerChar(c) ==
    IF \E i \in 1..Len(UpperChars) : UpperChars[i] = c
    THEN LowerChars[CHOOSE i \in 1..Len(UpperChars) : UpperChars[i] = c]
    ELSE c

\* a case-sensitive variant: the string unchanged
ToLower_identity(s) == s

\* strings.ToLower
ToLower(s) == [i \in 1..Len(s) |-> ToLowerChar(s[i])]

\* strings.HasPrefix
HasPrefix(s, p) == Len(s) >= Len(p) /\ SubSeq(s, 1, Len(p)) = p

\* strings.TrimPrefix
TrimPrefix(s, p) == IF HasPrefix(s, p) THEN SubSeq(s, Len(p) + 1, Len(s)) ELSE s

\* the positions of "/" in a path
SlashAt(p) == {i \in 1..Len(p) : p[i] = "/"}

Max(S) == CHOOSE m \in S : \A x \in S : x <= m

\* filepath.Dir: everything before the last separator, "." when there is none
Dir(p) ==
    IF SlashAt(p) = {} THEN s_dot
    ELSE IF Max(SlashAt(p)) = 1 THEN s_slash
    ELSE SubSeq(p, 1, Max(SlashAt(p)) - 1)

\* filepath.Base: everything after the last separator
Base(p) ==
    IF p = s_empty THEN s_dot
    ELSE IF SlashAt(p) = {} THEN p
    ELSE SubSeq(p, Max(SlashAt(p)) + 1, Len(p))

IsDigit(c) == \E i \in 1..Len(DigitChars) : DigitChars[i] = c
DigitVal(c) == (CHOOSE i \in 1..Len(DigitChars) : DigitChars[i] = c) - 1

\* the length of the longest prefix of s made of decimal digits
RECURSIVE DigitRun(_)
DigitRun(s) ==
    IF s = s_empty \/ ~IsDigit(Head(s)) THEN 0 ELSE 1 + DigitRun(Tail(s))

RECURSIVE DecValue(_, _)
DecValue(s, acc) ==
    IF s = s_empty THEN acc ELSE DecValue(Tail(s), 10 * acc + DigitVal(Head(s)))

\* a variant that reads one digit only
Sscanf_d_onedigit(s) ==
    IF s # s_empty /\ IsDigit(Head(s)) THEN [ok |-> TRUE, val |-> DigitVal(Head(s))]
    ELSE [ok |-> FALSE, val |-> 0]

\* fmt.Sscanf(s, "%d", &idx): an optional sign and a run of digits; the
\* rest of the input is left unread. ok is FALSE when no number is read.
Sscanf_d(s) ==
    LET signed == s # s_empty /\ Head(s) \in {"+", "-"}
        body == IF signed THEN Tail(s) ELSE s
        n == DigitRun(body)
        v == DecValue(SubSeq(body, 1, n), 0)
    IN  IF n = 0 THEN [ok |-> FALSE, val |-> 0]
        ELSE [ok |-> TRUE, val |-> IF signed /\ Head(s) = "-" THEN 0 - v ELSE v]

(***************************************************************************)
(* Inputs: flags, environment, remote responses.                           *)
(***************************************************************************)
s_cat == <<"c","a","t">>
s_5 == <<"5">>
s_v0 == <<"v","0">>
s_v1 == <<"v","1">>
s_in_png == <<"i","n",".","p","n","g">>
s_o_mp4 == <<"o",".","m","p","4">>
s_d_o_mp4 == <<"d","/","o",".","m","p","4">>
s_boom == <<"b","o","o","m">>
s_now == <<"T">>

\* status strings the remote service may send
PolledStatuses ==
    { s_succeeded, <<"C","o","m","p","l","e","t","e","d">>, <<"C","O","M","P","L","E","T","E">>,
      <<"D","o","n","e">>, <<"R","E","A","D","Y">>,
      s_failed, <<"F","a","i","l","e","d">>, <<"E","R","R","O","R">>,
      <<"q","u","e","u","e","d">>, <<"R","u","n","n","i","n","g">>, s_empty,
      <<"s","u","c","c","e","s","s">> }

\* progress values the remote service may send
Progresses == {0, 45}

\* a *apiError: nil, or a message
NoError == [present |-> FALSE, Message |-> s_empty]
ApiErrors == {NoError, [present |-> TRUE, Message |-> s_empty], [present |-> TRUE, Message |-> s_boom]}

\* what fetchVideoStatus returns: err (kind # "ok") or a videoStatusResponse
StatusResult(k, s, e, p) == [kind |-> k, Status |-> s, Error |-> e, Progress |-> p]
NoStatus == StatusResult("none", s_empty, NoError, 0)
StatusErrors == {StatusResult(k, s_empty, NoError, 0) : k \in {"ctx", "transport", "http", "decode"}}
StatusResponses == {StatusResult("ok", s, e, p) : s \in PolledStatuses, e \in ApiErrors, p \in Progresses}

\* what a submit call's HTTP exchange yields: err or a createVideoResponse
SubmitResult(k, id, e) == [kind |-> k, ID |-> id, Error |-> e]
SubmitErrors == {SubmitResult(k, s_empty, NoError) : k \in {"ctx", "transport", "http", "decode"}}
SubmitResponses == {SubmitResult("ok", id, e) : id \in {s_empty, s_v1}, e \in ApiErrors}

\* the body of a content response: the bytes 1..n
BodyOf(n) == [i \in 1..n |-> i]
OldData == <<0>>

\* a *string: nil, or a string
NilString == [set |-> FALSE, val |-> s_empty]
PtrTo(s) == [set |-> TRUE, val |-> s]

(***************************************************************************)
(* The history store.                                                      *)
(***************************************************************************)
videoHistoryEntry(id, prompt, createdAt, outputFile, model, imageInput, remixedFrom) ==
    [ID |-> id, Prompt |-> prompt, CreatedAt |-> createdAt, OutputFile |-> outputFile,
     Model |-> model, ImageInput |-> imageInput, RemixedFrom |-> remixedFrom]

e_old == videoHistoryEntry(s_v0, s_cat, s_now, s_o_mp4, s_sora2, NilString, NilString)

\* the history file: missing, not parseable, or a document {videos: [...]}
HistMissing == [state |-> "missing", Videos |-> << >>]
HistCorrupt == [state |-> "corrupt", Videos |-> << >>]
HistOf(videos) == [state |-> "ok", Videos |-> videos]

\* a variant for which a missing history file is a read error
loadHistory_missingIsError(file, io) ==
    IF io = "home" THEN [err |-> "home", Videos |-> << >>]
    ELSE IF file.state = "missing" \/ io = "read" THEN [err |-> "reading history", Videos |-> << >>]
    ELSE IF file.state = "corrupt" THEN [err |-> "parsing history", Videos |-> << >>]
    ELSE [err |-> "", Videos |-> file.Videos]

\* loadHistory: io is the outcome of getHistoryPath and os.ReadFile
\* ("ok", "home": no home directory, "read": a read error other than
\* not-exist)
loadHistory(file, io) ==
    IF io = "home" THEN [err |-> "home", Videos |-> << >>]
    ELSE IF file.state = "missing" THEN [err |-> "", Videos |-> << >>]
    ELSE IF io = "read" THEN [err |-> "reading history", Videos |-> << >>]
    ELSE IF file.state = "corrupt" THEN [err |-> "parsing history", Videos |-> << >>]
    ELSE [err |-> "", Videos |-> file.Videos]

\* saveHistory: io is the outcome of getHistoryPath, os.MkdirAll and
\* os.WriteFile ("ok", "home", "mkdir", "open": the file could not be
\* opened, "write": the write failed after the file was truncated)
saveHistory(file, videos, io) ==
    IF io = "home" THEN [err |-> "home", file |-> file]
    ELSE IF io = "mkdir" THEN [err |-> "creating history directory", file |-> file]
    ELSE IF io = "open" THEN [err |-> "writing history", file |-> file]
    ELSE IF io = "write" THEN [err |-> "writing history", file |-> HistCorrupt]
    ELSE [err |-> "", file |-> HistOf(videos)]

\* variants of the cut: no cut at all, and a cut that drops the new entry
Prepended_nocap(entry, videos) == <<entry>> \o videos
Prepended_dropnew(entry, videos) ==
    LET all == <<entry>> \o videos
    IN  IF Len(all) > HistoryCap THEN SubSeq(all, 2, HistoryCap + 1) ELSE all

\* a variant that saves the new entry alone
Prepended_onlynew(entry, videos) == <<entry>>

\* the list addToHistory saves: the new entry first, cut to the cap
Prepended(entry, videos) ==
    LET all == <<entry>> \o videos
    IN  IF Len(all) > HistoryCap THEN SubSeq(all, 1, HistoryCap) ELSE all

\* addToHistory
addToHistory(file, entry, ioLoad, ioSave) ==
    LET h == loadHistory(file, ioLoad)
    IN  IF h.err # "" THEN [err |-> h.err, file |-> file]
        ELSE saveHistory(file, Prepended(entry, h.Videos), ioSave)

\* the invocations that may be inside addToHistory at the same time, and
\* where each of them is: "idle", "loaded" (loadHistory returned), "writing"
\* (os.WriteFile has opened and truncated the file), "done"
Procs == {1, 2}
Appender == [pc |-> "idle", loaded |-> << >>, err |-> "", openedAt |-> 0]
NoAppenders == [proc |-> [p \in Procs |-> Appender], writes |-> 0, overlap |-> FALSE]

\* what is known of the requests of a run: the id in the 2xx response of the
\* submit call and whether it carried an error message, and the paths the
\* status and content requests were built for (/videos/{id} and
\* /videos/{id}/content)
NoRequests == [id |-> s_empty, error |-> FALSE, urls |-> {}]
RequestsOf(id) == [id |-> id, error |-> FALSE, urls |-> {<<"status", id>>, <<"content", id>>}]

\* resolveRemixVideoID as the older main.go has it: before the reference is
\* taken for a video id it is matched against the recorded output files
FirstMatch(videos, ref) ==
    LET hits == {i \in 1..Len(videos) :
                    videos[i].OutputFile = ref \/ Base(videos[i].OutputFile) = ref}
    IN  IF hits = {} THEN 0 ELSE CHOOSE i \in hits : \A j \in hits : i <= j

resolveRemixVideoID_byFilename(file, ref, io) ==
    LET h == loadHistory(file, io)
        idx == Sscanf_d(TrimPrefix(ref, s_at))
        hit == FirstMatch(h.Videos, ref)
    IN  IF h.err # "" THEN [err |-> "loading history", id |-> s_empty]
        ELSE IF Len(h.Videos) = 0 THEN [err |-> "no videos in history", id |-> s_empty]
        ELSE IF ref = s_atlast THEN [err |-> "", id |-> h.Videos[1].ID]
        ELSE IF HasPrefix(ref, s_at) THEN
            IF ~idx.ok THEN [err |-> "invalid index", id |-> s_empty]
            ELSE IF idx.val < 0 \/ idx.val >= Len(h.Videos)
                 THEN [err |-> "index out of range", id |-> s_empty]
            ELSE [err |-> "", id |-> h.Videos[idx.val + 1].ID]
        ELSE IF hit # 0 THEN [err |-> "", id |-> h.Videos[hit].ID]
        ELSE [err |-> "", id |-> ref]

\* a variant that takes every reference for a video id
resolve_passthrough(file, ref, io) == [err |-> "", id |-> ref]

\* resolveRemixVideoID
resolveRemixVideoID(file, ref, io) ==
    LET h == loadHistory(file, io)
        idx == Sscanf_d(TrimPrefix(ref, s_at))
    IN  IF h.err # "" THEN [err |-> "loading history", id |-> s_empty]
        ELSE IF Len(h.Videos) = 0 THEN [err |-> "no videos in history", id |-> s_empty]
        ELSE IF ref = s_atlast THEN [err |-> "", id |-> h.Videos[1].ID]
        ELSE IF HasPrefix(ref, s_at) THEN
            IF ~idx.ok THEN [err |-> "invalid index", id |-> s_empty]
            ELSE IF idx.val < 0 \/ idx.val >= Len(h.Videos)
                 THEN [err |-> "index out of range", id |-> s_empty]
            ELSE [err |-> "", id |-> h.Videos[idx.val + 1].ID]
        ELSE [err |-> "", id |-> ref]

(***************************************************************************)
(* The file system: a set of <<path, bytes>> pairs, one per existing file. *)
(***************************************************************************)
FileExists(files, p) == \E f \in files : f[1] = p
ReadFile(files, p) == (CHOOSE f \in files : f[1] = p)[2]
Remove(files, p) == {f \in files : f[1] # p}
WriteFile(files, p, data) == Remove(files, p) \cup {<<p, data>>}
Rename(files, from, to) == WriteFile(Remove(files, from), to, ReadFile(files, from))

(***************************************************************************)
(* The input file and its processing (processInputFile).                   *)
(***************************************************************************)
s_ext_jpg == <<".","j","p","g">>
s_ext_jpeg == <<".","j","p","e","g">>
s_ext_png == <<".","p","n","g">>
s_ext_webp == <<".","w","e","b","p">>
s_ext_mp4 == <<".","m","p","4">>
s_ext_webm == <<".","w","e","b","m">>
s_ext_mov == <<".","m","o","v">>
s_ext_avi == <<".","a","v","i">>

\* filepath.Ext: the suffix that starts at the last dot of the last element
Ext(p) ==
    LET dots == {i \in 1..Len(p) : p[i] = "." /\ \A j \in i..Len(p) : p[j] # "/"}
    IN  IF dots = {} THEN s_empty ELSE SubSeq(p, Max(dots), Len(p))

\* strings.TrimSuffix
TrimSuffix(s, suf) ==
    IF Len(suf) <= Len(s) /\ SubSeq(s, Len(s) - Len(suf) + 1, Len(s)) = suf
    THEN SubSeq(s, 1, Len(s) - Len(suf)) ELSE s

\* detectMIMEType
detectMIMEType(filePath) ==
    LET ext == ToLower(Ext(filePath))
    IN  IF ext \in {s_ext_jpg, s_ext_jpeg} THEN "image/jpeg"
        ELSE IF ext = s_ext_png THEN "image/png"
        ELSE IF ext = s_ext_webp THEN "image/webp"
        ELSE IF ext = s_ext_mp4 THEN "video/mp4"
        ELSE IF ext = s_ext_webm THEN "video/webm"
        ELSE IF ext = s_ext_mov THEN "video/quicktime"
        ELSE IF ext = s_ext_avi THEN "video/x-msvideo"
        ELSE "application/octet-stream"

\* isImageFile: strings.HasPrefix(mime, "image/")
isImageFile(filePath) == detectMIMEType(filePath) \in {"image/jpeg", "image/png", "image/webp"}

\* the positions of the separator of a size
XAt(size) == {i \in 1..Len(size) : size[i] = "x"}

\* parseDimensions: strings.Split(size, "x") and Sscanf of both parts; a
\* part that is no number leaves its dimension 0
parseDimensions(size) ==
    IF size = s_empty THEN [w |-> 1280, h |-> 720]
    ELSE IF Cardinality(XAt(size)) = 1
    THEN LET k == CHOOSE i \in XAt(size) : TRUE
         IN  [w |-> Sscanf_d(SubSeq(size, 1, k - 1)).val,
              h |-> Sscanf_d(SubSeq(size, k + 1, Len(size))).val]
    ELSE [w |-> 1280, h |-> 720]

\* what is known of a file on disk: whether it exists, the format of its
\* content ("png", "jpeg", "webp", "gif": an image; "mp4": a container with
\* a track header; "junk": neither), its pixel geometry, and whether its
\* bytes are the very bytes the encoder of its format writes for its pixels
NoFile == [exists |-> FALSE, content |-> "junk", w |-> 0, h |-> 0, canonical |-> FALSE]
FileOf(content, w, h, canonical) ==
    [exists |-> TRUE, content |-> content, w |-> w, h |-> h, canonical |-> canonical]
ImageContents == {"png", "jpeg", "webp", "gif"}

\* byte strings: those of the input file, those an encoder wrote, those
\* ffmpeg wrote
NoData == [from |-> "none", format |-> "", w |-> 0, h |-> 0]
SourceBytes(file) == [from |-> "file", format |-> file.content, w |-> file.w, h |-> file.h]
EncodedBytes(format, w, h) == [from |-> "encoder", format |-> format, w |-> w, h |-> h]
ResizedBytes(w, h) == [from |-> "ffmpeg", format |-> "mp4", w |-> w, h |-> h]

\* decodeImage: webp.Decode for the extension .webp, imaging.Open (decoding
\* by content) for the others; io "decode" is a decoder that gives up on
\* the content, "read" a failed read
decodeImage(filePath, file, io) ==
    LET ext == ToLower(Ext(filePath))
    IN  IF io = "decode" \/ (ext = s_ext_webp /\ io = "read") THEN [err |-> TRUE, w |-> 0, h |-> 0, pristine |-> FALSE]
        ELSE IF ext = s_ext_webp /\ file.content # "webp" THEN [err |-> TRUE, w |-> 0, h |-> 0, pristine |-> FALSE]
        ELSE IF file.content \notin ImageContents THEN [err |-> TRUE, w |-> 0, h |-> 0, pristine |-> FALSE]
        ELSE [err |-> FALSE, w |-> file.w, h |-> file.h, pristine |-> TRUE]

Min2(a, b) == IF a <= b THEN a ELSE b
Max2(a, b) == IF a >= b THEN a ELSE b
\* int(math.Floor(a*b/c + 0.5)) for non-negative a, b and positive c
RoundDiv(a, b, c) == (2 * a * b + c) \div (2 * c)

\* imaging.Resize: a dimension given as 0 is derived from the other one so
\* as to keep the aspect ratio
Resize(img, width, height) ==
    IF width < 0 \/ height < 0 \/ (width = 0 /\ height = 0) \/ img.w <= 0 \/ img.h <= 0
    THEN [w |-> 0, h |-> 0]
    ELSE [w |-> IF width = 0 THEN Max2(1, RoundDiv(height, img.w, img.h)) ELSE width,
          h |-> IF height = 0 THEN Max2(1, RoundDiv(width, img.h, img.w)) ELSE height]

\* imaging.CropAnchor with imaging.Center: the centred rectangle, cut to the
\* bounds of the image
CropAnchor(img, width, height) == [w |-> Min2(width, img.w), h |-> Min2(height, img.h)]

\* a variant that scales the image into the box and crops nothing
\* (imaging.Fit)
Fill_fit(img, width, height) ==
    IF img.w * height < img.h * width
    THEN Resize(img, 0, Min2(height, img.h))
    ELSE Resize(img, Min2(width, img.w), 0)

\* imaging.Fill: large images are cropped to the aspect ratio of the box
\* and scaled, small ones scaled to cover the box and cropped
Fill(img, width, height) ==
    IF width <= 0 \/ height <= 0 \/ img.w <= 0 \/ img.h <= 0 THEN [w |-> 0, h |-> 0]
    ELSE IF img.w = width /\ img.h = height THEN [w |-> img.w, h |-> img.h]
    ELSE IF img.w >= 100 /\ img.h >= 100
    THEN IF img.w * height < img.h * width
         THEN Resize(CropAnchor(img, img.w, Max2(1, RoundDiv(img.w, height, width))), width, height)
         ELSE Resize(CropAnchor(img, Max2(1, RoundDiv(img.h, width, height)), img.h), width, height)
    ELSE IF img.w * height < img.h * width
         THEN CropAnchor(Resize(img, width, 0), width, height)
         ELSE CropAnchor(Resize(img, 0, height), width, height)

\* the format encodeImage writes for an extension, its content type and
\* the extension of the result
encodeFormat(ext) ==
    IF ext = s_ext_webp THEN [format |-> "webp", mimeType |-> "image/webp", newExt |-> ext]
    ELSE IF ext = s_ext_png THEN [format |-> "png", mimeType |-> "image/png", newExt |-> ext]
    ELSE [format |-> "jpeg", mimeType |-> "image/jpeg", newExt |-> s_ext_jpg]

\* a variant that hands an untouched image back as the bytes of its file
encodeImage_passthrough(img, ext, file) ==
    IF img.pristine THEN SourceBytes(file)
    ELSE EncodedBytes(encodeFormat(ext).format, img.w, img.h)

\* encodeImage: the image is always encoded anew. The bytes written are
\* those of the file only for an untouched image of the same format whose
\* file came from this very encoder.
encodeImage(img, ext, file) ==
    IF img.pristine /\ file.canonical /\ file.content = encodeFormat(ext).format
    THEN SourceBytes(file)
    ELSE EncodedBytes(encodeFormat(ext).format, img.w, img.h)

\* getVideoDimensions: the first track header with positive dimensions
getVideoDimensions(file, io) ==
    IF io = "open" \/ file.content # "mp4" \/ file.w <= 0 \/ file.h <= 0
    THEN [err |-> TRUE, w |-> 0, h |-> 0]
    ELSE [err |-> FALSE, w |-> file.w, h |-> file.h]

\* what processInputFile returns, and what it did on the way: the runs of
\* ffmpeg, and the temporary file ("none": never created, "removed",
\* "left": still there on return)
NoMedia ==
    [called |-> FALSE, err |-> "", data |-> NoData, filename |-> s_empty, mimeType |-> "",
     current |-> <<0, 0>>, target |-> <<0, 0>>, ffmpegRuns |-> 0, tmp |-> "none"]
mediaError(msg) == [NoMedia EXCEPT !.called = TRUE, !.err = msg]
mediaOk(data, filename, mimeType) ==
    [NoMedia EXCEPT !.called = TRUE, !.data = data, !.filename = filename, !.mimeType = mimeType]

\* resizeVideoWithFFmpeg followed by the deferred os.Remove and the read of
\* the result. The removal is deferred only after ffmpeg succeeded.
resizeAndRead(filePath, targetWidth, targetHeight, io) ==
    IF io = "tmp" THEN mediaError("resizing video with ffmpeg")
    ELSE IF io = "ffmpeg"
    THEN [mediaError("resizing video with ffmpeg") EXCEPT !.ffmpegRuns = 1, !.tmp = "left"]
    ELSE IF io = "readback"
    THEN [mediaError("reading resized video") EXCEPT !.ffmpegRuns = 1, !.tmp = "removed"]
    ELSE [mediaOk(ResizedBytes(targetWidth, targetHeight), Base(filePath), detectMIMEType(filePath))
            EXCEPT !.ffmpegRuns = 1, !.tmp = "removed"]

\* a variant that runs ffmpeg without looking for it first
processVideo_nolookup(filePath, file, ffmpeg, targetWidth, targetHeight, io) ==
    LET cur == getVideoDimensions(file, io)
    IN  IF cur.err THEN mediaError("getting video dimensions")
        ELSE IF cur.w = targetWidth /\ cur.h = targetHeight
        THEN IF io = "read" THEN mediaError("reading video")
             ELSE mediaOk(SourceBytes(file), Base(filePath), detectMIMEType(filePath))
        ELSE IF ~ffmpeg
        THEN [mediaError("resizing video with ffmpeg") EXCEPT !.ffmpegRuns = 1, !.tmp = "left"]
        ELSE resizeAndRead(filePath, targetWidth, targetHeight, io)

\* processInputFile, for a file that is no image by its extension
processVideo(filePath, file, ffmpeg, targetWidth, targetHeight, io) ==
    LET cur == getVideoDimensions(file, io)
    IN  IF cur.err THEN mediaError("getting video dimensions")
        ELSE IF cur.w = targetWidth /\ cur.h = targetHeight
        THEN IF io = "read" THEN mediaError("reading video")
             ELSE mediaOk(SourceBytes(file), Base(filePath), detectMIMEType(filePath))
        ELSE IF ~ffmpeg
        THEN [mediaError("video is WxH but needs to be WxH")
                EXCEPT !.current = <<cur.w, cur.h>>, !.target = <<targetWidth, targetHeight>>]
        ELSE resizeAndRead(filePath, targetWidth, targetHeight, io)

\* processInputFile, for an image
processImage(filePath, file, targetWidth, targetHeight, io) ==
    LET img == decodeImage(filePath, file, io)
        ext == ToLower(Ext(filePath))
        dims == Fill(img, targetWidth, targetHeight)
        filled == IF img.w # targetWidth \/ img.h # targetHeight
                  THEN [w |-> dims.w, h |-> dims.h, pristine |-> FALSE]
                  ELSE [w |-> img.w, h |-> img.h, pristine |-> img.pristine]
        enc == encodeFormat(ext)
    IN  IF img.err THEN mediaError("decoding image")
        ELSE IF io = "encode" THEN mediaError("encoding image")
        ELSE mediaOk(encodeImage(filled, ext, file),
                     IF enc.newExt # ext THEN TrimSuffix(Base(filePath), ext) \o enc.newExt
                     ELSE Base(filePath),
                     enc.mimeType)

\* processInputFile. io is the step of the outside world that fails, or "ok".
processInputFile(filePath, file, ffmpeg, targetWidth, targetHeight, io) ==
    IF ~file.exists THEN mediaError("file does not exist")
    ELSE IF io = "stat" THEN mediaError("checking file")
    ELSE IF isImageFile(filePath) THEN processImage(filePath, file, targetWidth, targetHeight, io)
    ELSE processVideo(filePath, file, ffmpeg, targetWidth, targetHeight, io)

MediaIO == {"ok", "stat", "decode", "encode", "open", "read", "tmp", "ffmpeg", "readback"}

(***************************************************************************)
(* The invocations explored: the command line and the environment.         *)
(***************************************************************************)
Invocation ==
    [prompt |-> s_cat, output |-> s_empty, usePro |-> FALSE, inputFile |-> s_empty,
     remixFrom |-> s_empty, listHistory |-> FALSE, seconds |-> s_8, secondsChanged |-> FALSE,
     portrait |-> FALSE, landscape |-> FALSE, apiKey |-> TRUE,
     file |-> NoFile, ffmpeg |-> FALSE]

Outputs == {s_empty, s_dash, s_o_mp4, s_d_o_mp4}

ArgsSet ==
    {[Invocation EXCEPT !.output = o, !.remixFrom = r] : o \in Outputs, r \in {s_empty, s_atlast}}
    \cup {[Invocation EXCEPT !.prompt = s_empty],
          [Invocation EXCEPT !.prompt = s_empty, !.output = s_dash],
          [Invocation EXCEPT !.inputFile = s_in_png, !.usePro = TRUE, !.portrait = TRUE,
                             !.file = FileOf("png", 1280, 720, FALSE)],
          [Invocation EXCEPT !.remixFrom = s_v0, !.output = s_o_mp4],
          [Invocation EXCEPT !.remixFrom = <<"@","1">>],
          [Invocation EXCEPT !.remixFrom = s_atlast, !.usePro = TRUE],
          [Invocation EXCEPT !.remixFrom = s_atlast, !.secondsChanged = TRUE],
          [Invocation EXCEPT !.inputFile = s_in_png, !.seconds = s_5, !.secondsChanged = TRUE],
          [Invocation EXCEPT !.inputFile = s_in_png, !.remixFrom = <<"@","1">>],
          [Invocation EXCEPT !.remixFrom = s_v0, !.landscape = TRUE, !.portrait = TRUE],
          [Invocation EXCEPT !.remixFrom = s_atlast, !.usePro = TRUE, !.portrait = TRUE,
                             !.landscape = TRUE, !.seconds = s_5, !.secondsChanged = TRUE],
          [Invocation EXCEPT !.seconds = s_5, !.secondsChanged = TRUE],
          [Invocation EXCEPT !.portrait = TRUE, !.landscape = TRUE],
          [Invocation EXCEPT !.listHistory = TRUE],
          [Invocation EXCEPT !.apiKey = FALSE]}

\* the history file before the run
HistInit == {HistMissing, HistCorrupt, HistOf(<<e_old>>)}

\* the files before the run: none, or old files at every destination
FsInit == {{}, {<<s_o_mp4, OldData>>, <<s_d_o_mp4, OldData>>, <<s_v1 \o s_mp4, OldData>>}}

(***************************************************************************)
(* State.                                                                  *)
(***************************************************************************)
VARIABLES
    args,        \* the flags and the environment, as parsed
    pc,          \* the position of main
    exitCode,    \* the exit status; Running until the process ends
    stderr,      \* the last line written to stderr
    stdout,      \* everything written to stdout
    prompt,      \* main's prompt
    output,      \* main's output
    jobID,       \* main's jobID
    resolvedID,  \* main's resolvedID, the id the remix request is addressed to
    ctxDone,     \* ctx.Done() is closed (interrupt or deadline)
    timerReady,  \* the channel of the current time.After has a value
    st,          \* the loop's st and err: what the last fetchVideoStatus returned
    nPolls,      \* calls of fetchVideoStatus so far
    bar,         \* the value of the progress bar
    sent,        \* requests put on the wire, by kind
    inflight,    \* the request of the call in progress is on the wire
    hist,        \* the history file
    hist0,       \* the history file before the run
    appends,     \* calls of addToHistory so far
    fs,          \* the files
    fs0,         \* the files before the run
    dl,          \* downloadFile's locals: the body, the bytes copied, tmp made
    mediaCalls,  \* calls of processInputFile so far
    processed,   \* what processInputFile returned and did
    afterCancel, \* calls of fetchVideoStatus started with the context done
    conc,        \* invocations that are inside addToHistory at the same time
    reqs,        \* the id of the submit response, and the ids the requests address
    named,       \* the flags named by the remix conflict error
    resolveErr   \* main's resolveErr, what resolveRemixVideoID returned

vars == <<args, pc, exitCode, stderr, stdout, prompt, output, jobID, resolvedID, ctxDone, timerReady,
          st, nPolls, bar, sent, inflight, hist, hist0, appends, fs, fs0, dl, mediaCalls, processed, afterCancel, conc, reqs, named,
          resolveErr>>

Running == 0 - 1

NoDownload == [body |-> << >>, written |-> 0, tmp |-> s_empty]

Init ==
    /\ args \in ArgsSet
    /\ hist \in HistInit
    /\ fs \in FsInit
    /\ hist0 = hist
    /\ fs0 = fs
    /\ pc = "start"
    /\ exitCode = Running
    /\ stderr = ""
    /\ stdout = << >>
    /\ prompt = args.prompt
    /\ output = args.output
    /\ jobID = s_empty
    /\ resolvedID = s_empty
    /\ ctxDone = FALSE
    /\ timerReady = FALSE
    /\ st = NoStatus
    /\ nPolls = 0
    /\ bar = 0
    /\ sent = [create |-> 0, remix |-> 0, status |-> 0, download |-> 0]
    /\ inflight = FALSE
    /\ appends = 0
    /\ dl = NoDownload
    /\ mediaCalls = 0
    /\ processed = NoMedia
    /\ afterCancel = 0
    /\ conc = NoAppenders
    /\ reqs = NoRequests
    /\ named = {}
    /\ resolveErr = ""

\* os.Exit(code) after a last line on stderr
Exit(code, msg) ==
    /\ pc' = "exit"
    /\ exitCode' = code
    /\ stderr' = msg

\* main: model and videoSize
model == IF args.usePro THEN s_sora2pro ELSE s_sora2
videoSize == IF args.portrait THEN s_720x1280 ELSE s_1280x720

\* a variant that names only the first conflicting flag
conflictNames_first ==
    IF args.usePro THEN {"--pro"}
    ELSE IF args.portrait THEN {"--portrait"}
    ELSE IF args.landscape THEN {"--landscape"}
    ELSE IF args.secondsChanged THEN {"--seconds"}
    ELSE {}

\* main: the flags that conflict with --remix
conflictNames ==
    {c \in {"--pro", "--portrait", "--landscape", "--seconds"} :
        \/ c = "--pro" /\ args.usePro
        \/ c = "--portrait" /\ args.portrait
        \/ c = "--landscape" /\ args.landscape
        \/ c = "--seconds" /\ args.secondsChanged}

IsSpace(c) == c \in {" ", "\t", "\n", "\r"}

\* strings.TrimSpace
RECURSIVE TrimLeft(_)
TrimLeft(s) == IF s # s_empty /\ IsSpace(Head(s)) THEN TrimLeft(Tail(s)) ELSE s
RECURSIVE TrimRight(_)
TrimRight(s) ==
    IF s # s_empty /\ IsSpace(s[Len(s)]) THEN TrimRight(SubSeq(s, 1, Len(s) - 1)) ELSE s
TrimSpace(s) == TrimRight(TrimLeft(s))

\* what a read of a line from stdin yields
StdinResults ==
    {[err |-> TRUE, line |-> s_empty],
     [err |-> FALSE, line |-> <<" ","c","a","t","\n">>],
     [err |-> FALSE, line |-> <<" ","\n">>]}

\* what was written to stdout: text, or a byte of the video
Text(tag) == <<"text", tag>>
VideoByte(b) == <<"video", b>>

(***************************************************************************)
(* main, up to the submission.                                             *)
(***************************************************************************)
\* main: the validation of the flags
main_validate ==
    /\ pc = "start"
    /\ IF args.remixFrom # s_empty /\ conflictNames # {}
       THEN Exit(2, "Cannot use with --remix") /\ named' = conflictNames
       ELSE IF args.seconds # s_4 /\ args.seconds # s_8 /\ args.seconds # s_12
       THEN Exit(2, "Invalid --seconds value") /\ UNCHANGED named
       ELSE IF args.portrait /\ args.landscape
       THEN Exit(2, "Cannot use both --portrait and --landscape") /\ UNCHANGED named
       ELSE pc' = "validated" /\ UNCHANGED <<exitCode, stderr, named>>
    /\ UNCHANGED <<args, reqs, conc, afterCancel, processed, resolveErr, mediaCalls, stdout, prompt, output, jobID, resolvedID, ctxDone, timerReady, st, nPolls, bar,
                   sent, inflight, hist, hist0, appends, fs, fs0, dl>>

\* a variant of --list that replaces a history it cannot load by an empty one
main_list_repair(io) ==
    /\ pc = "validated"
    /\ args.listHistory
    /\ LET h == loadHistory(hist, io)
       IN  /\ hist' = IF h.err # "" THEN HistOf(<< >>) ELSE hist
           /\ IF h.err # "" THEN Exit(1, "failed to load history")
              ELSE IF Len(h.Videos) = 0 THEN Exit(0, "No videos in history")
              ELSE Exit(0, "Video Generation History")
    /\ UNCHANGED <<args, reqs, conc, afterCancel, processed, resolveErr, mediaCalls, named, stdout, prompt, output, jobID, resolvedID, ctxDone, timerReady, st, nPolls, bar,
                   sent, inflight, hist0, appends, fs, fs0, dl>>

\* main: --list
main_list(io) ==
    /\ pc = "validated"
    /\ args.listHistory
    /\ LET h == loadHistory(hist, io)
       IN  IF h.err # "" THEN Exit(1, "failed to load history")
           ELSE IF Len(h.Videos) = 0 THEN Exit(0, "No videos in history")
           ELSE Exit(0, "Video Generation History")
    /\ UNCHANGED <<args, reqs, conc, afterCancel, processed, resolveErr, mediaCalls, named, stdout, prompt, output, jobID, resolvedID, ctxDone, timerReady, st, nPolls, bar,
                   sent, inflight, hist, hist0, appends, fs, fs0, dl>>

\* main: the API key, the prompt (promptInteractive), the context
main_setup(stdin) ==
    /\ pc = "validated"
    /\ ~args.listHistory
    /\ IF ~args.apiKey
       THEN Exit(1, "OPENAI_API_KEY is not set") /\ UNCHANGED <<stdout, prompt>>
       ELSE IF prompt # s_empty
       THEN pc' = "branch" /\ UNCHANGED <<exitCode, stderr, stdout, prompt>>
       ELSE /\ stdout' = Append(stdout, Text("Enter your video prompt: "))
            /\ IF stdin.err
               THEN Exit(1, "failed to read prompt") /\ UNCHANGED prompt
               ELSE /\ prompt' = TrimSpace(stdin.line)
                    /\ IF TrimSpace(prompt') = s_empty
                       THEN Exit(1, "Prompt cannot be empty")
                       ELSE pc' = "branch" /\ UNCHANGED <<exitCode, stderr>>
    /\ UNCHANGED <<args, reqs, conc, afterCancel, processed, resolveErr, mediaCalls, named, output, jobID, resolvedID, ctxDone, timerReady, st, nPolls, bar,
                   sent, inflight, hist, hist0, appends, fs, fs0, dl>>

\* the interrupt signal arrives or the deadline expires
ctx_cancel ==
    /\ pc \in {"branch", "submit", "select", "fetch", "download", "dl_do", "dl_copy"}
    /\ ~ctxDone
    /\ ctxDone' = TRUE
    /\ UNCHANGED <<args, reqs, conc, afterCancel, processed, resolveErr, mediaCalls, named, pc, exitCode, stderr, stdout, prompt, output, jobID, resolvedID, timerReady, st,
                   nPolls, bar, sent, inflight, hist, hist0, appends, fs, fs0, dl>>

\* a variant of Do that ignores the context: the request is always sent
Do_noctx(kind) ==
    /\ inflight' = TRUE
    /\ sent' = [sent EXCEPT ![kind] = @ + 1]

\* http.Client.Do under ctx: a request whose context is done is not sent
Do(kind) ==
    /\ inflight' = ~ctxDone
    /\ sent' = IF ctxDone THEN sent ELSE [sent EXCEPT ![kind] = @ + 1]

\* what Do may return: the context's error once the context is done, and
\* for a request that was sent whatever the exchange yields
Returnable(r) == (r.kind = "ctx" => ctxDone) /\ (~inflight => r.kind = "ctx")

\* main: the branch between remix and create (remixFrom != "")
\* a variant in which a remix also takes the create path
isRemix_never == FALSE
isRemix == args.remixFrom # s_empty

\* main: the create branch, createVideoJob up to the request.
\* media is the step of processInputFile that fails when a file is given,
\* or "ok".
main_create(media) ==
    /\ pc = "branch"
    /\ ~isRemix
    /\ mediaCalls' = IF args.inputFile # s_empty THEN mediaCalls + 1 ELSE mediaCalls
    /\ processed' = IF args.inputFile = s_empty THEN processed
                    ELSE LET target == parseDimensions(videoSize)
                         IN  processInputFile(args.inputFile, args.file, args.ffmpeg,
                                              target.w, target.h, media)
    /\ IF processed'.err # ""
       THEN Exit(1, "create job error") /\ UNCHANGED <<inflight, sent>>
       ELSE pc' = "submit" /\ Do("create") /\ UNCHANGED <<exitCode, stderr>>
    /\ UNCHANGED <<args, reqs, conc, afterCancel, resolveErr, named, stdout, prompt, output, jobID, resolvedID, ctxDone, timerReady, st, nPolls, bar,
                   hist, hist0, appends, fs, fs0, dl>>

\* main: the remix branch, resolveRemixVideoID and remixVideo up to the
\* request
main_remix(io) ==
    /\ pc = "branch"
    /\ isRemix
    /\ LET r == resolveRemixVideoID(hist, args.remixFrom, io)
       IN  /\ resolveErr' = r.err
           /\ IF r.err # ""
              THEN Exit(1, "failed to resolve remix reference")
                   /\ UNCHANGED <<inflight, sent, resolvedID>>
              ELSE /\ pc' = "submit"
                   /\ stderr' = "Remixing from video"
                   /\ resolvedID' = r.id
                   /\ Do("remix")
                   /\ UNCHANGED exitCode
    /\ UNCHANGED <<args, reqs, conc, afterCancel, processed, mediaCalls, named, stdout, prompt, output, jobID, ctxDone, timerReady, st, nPolls, bar,
                   hist, hist0, appends, fs, fs0, dl>>

\* a variant that takes a response without id for a job
submitOutcome_lax(r) ==
    IF r.kind # "ok" THEN [err |-> r.kind, id |-> s_empty]
    ELSE IF r.Error.present /\ r.Error.Message # s_empty THEN [err |-> "api error", id |-> s_empty]
    ELSE [err |-> "", id |-> r.ID]

\* createVideoJob and remixVideo, from the response on: the job id, or err
submitOutcome(r) ==
    IF r.kind # "ok" THEN [err |-> r.kind, id |-> s_empty]
    ELSE IF r.Error.present /\ r.Error.Message # s_empty THEN [err |-> "api error", id |-> s_empty]
    ELSE IF r.ID = s_empty THEN [err |-> "missing job id in response", id |-> s_empty]
    ELSE [err |-> "", id |-> r.ID]

\* main: the submit call returns
submit_return(r) ==
    /\ pc = "submit"
    /\ Returnable(r)
    /\ LET out == submitOutcome(r)
       IN  IF out.err # ""
           THEN Exit(1, "create job error") /\ UNCHANGED <<jobID, timerReady>>
           ELSE /\ jobID' = out.id
                /\ stderr' = "Created job"
                /\ pc' = "select"
                /\ timerReady' = FALSE
                /\ UNCHANGED exitCode
    /\ inflight' = FALSE
    /\ reqs' = [reqs EXCEPT !.id = IF r.kind = "ok" THEN r.ID ELSE s_empty,
                            !.error = r.kind = "ok" /\ r.Error.present /\ r.Error.Message # s_empty]
    /\ UNCHANGED <<args, conc, afterCancel, processed, resolveErr, mediaCalls, named, stdout, prompt, output, resolvedID, ctxDone, st, nPolls, bar,
                   sent, hist, hist0, appends, fs, fs0, dl>>

(***************************************************************************)
(* main, the polling loop.                                                 *)
(***************************************************************************)
\* a variant in which a timer fires although the context was done before
timer_fire_anytime ==
    /\ pc = "select"
    /\ ~timerReady
    /\ nPolls < MaxPolls
    /\ timerReady' = TRUE
    /\ UNCHANGED <<args, reqs, conc, afterCancel, processed, resolveErr, mediaCalls, named, pc, exitCode, stderr, stdout, prompt, output, jobID, resolvedID,
                   ctxDone, st, nPolls, bar, sent, inflight, hist, hist0, appends, fs, fs0, dl>>

\* the poll timer of the current wait fires: three seconds after the select
\* was entered. A select entered with the context done does not wait, and a
\* waiting select is woken by the first of its channels, so the timer
\* fires only while the context is not done.
timer_fire ==
    /\ pc = "select"
    /\ ~timerReady
    /\ ~ctxDone
    /\ nPolls < MaxPolls
    /\ timerReady' = TRUE
    /\ UNCHANGED <<args, reqs, conc, afterCancel, processed, resolveErr, mediaCalls, named, pc, exitCode, stderr, stdout, prompt, output, jobID, resolvedID,
                   ctxDone, st, nPolls, bar, sent, inflight, hist, hist0, appends, fs, fs0, dl>>

\* a variant of the select statement without the case <-ctx.Done()
ReadyCases_timeronly == {c \in {"timer"} : timerReady}

\* the cases of the select statement that can proceed
ReadyCases == {c \in {"ctx", "timer"} : (c = "ctx" /\ ctxDone) \/ (c = "timer" /\ timerReady)}

\* main: the line written when the context is done
\* a variant in which cancellation is reported as a job failure
cancelMessage_jobfailed == "Job failed"
cancelMessage == "Context canceled or timed out before completion"

\* select, case <-ctx.Done()
select_ctx ==
    /\ pc = "select"
    /\ "ctx" \in ReadyCases
    /\ Exit(1, cancelMessage)
    /\ UNCHANGED <<args, reqs, conc, afterCancel, processed, resolveErr, mediaCalls, named, stdout, prompt, output, jobID, resolvedID, ctxDone, timerReady, st,
                   nPolls, bar, sent, inflight, hist, hist0, appends, fs, fs0, dl>>

\* select, case <-time.After(3 * time.Second), and fetchVideoStatus up to
\* the request
select_timer ==
    /\ pc = "select"
    /\ "timer" \in ReadyCases
    /\ pc' = "fetch"
    /\ timerReady' = FALSE
    /\ nPolls' = nPolls + 1
    /\ st' = NoStatus
    /\ Do("status")
    /\ reqs' = [reqs EXCEPT !.urls = @ \cup {<<"status", jobID>>}]
    /\ afterCancel' = IF ctxDone THEN afterCancel + 1 ELSE afterCancel
    /\ UNCHANGED <<args, conc, processed, resolveErr, mediaCalls, named, exitCode, stderr, stdout, prompt, output, jobID, resolvedID, ctxDone,
                   bar, hist, hist0, appends, fs, fs0, dl>>

\* a variant that never looks at the error field
jobError_never(r) == FALSE

\* main: st.Error != nil && st.Error.Message != ""
jobError(r) == r.Error.present /\ r.Error.Message # s_empty

\* a variant that takes every non-failure status for success
classify_eager(status) ==
    IF status \in {s_failed, s_error} THEN "failure" ELSE "success"

\* a variant without the failure words
classify_noerror(status) ==
    IF ToLower(status) \in {s_succeeded, s_completed, s_complete, s_done, s_ready} THEN "success"
    ELSE IF ToLower(status) \in {s_failed} THEN "failure"
    ELSE "continue"

\* main: the switch on strings.ToLower(st.Status)
classify(status) ==
    IF ToLower(status) \in {s_succeeded, s_completed, s_complete, s_done, s_ready} THEN "success"
    ELSE IF ToLower(status) \in {s_failed, s_error} THEN "failure"
    ELSE "continue"

\* a variant in which a failed status call ends the run
pollOutcome_fatal(r) ==
    IF r.kind # "ok" THEN "failure"
    ELSE IF r.Error.present /\ r.Error.Message # s_empty THEN "job error"
    ELSE "continue"

\* main: what the loop does with what fetchVideoStatus returned
pollOutcome(r) ==
    IF r.kind # "ok" THEN "retry"
    ELSE IF jobError(r) THEN "job error"
    ELSE classify(r.Status)

\* main: fetchVideoStatus returns and the loop body handles the result
fetch_return(r) ==
    /\ pc = "fetch"
    /\ Returnable(r)
    /\ st' = r
    /\ inflight' = FALSE
    /\ bar' = IF pollOutcome(r) \in {"retry", "job error"} THEN bar
              ELSE IF pollOutcome(r) = "success" THEN 100
              ELSE IF r.Progress > 0 THEN r.Progress ELSE bar
    /\ CASE pollOutcome(r) = "retry" ->
              pc' = "select" /\ stderr' = "poll error" /\ UNCHANGED exitCode
         [] pollOutcome(r) = "job error" ->
              Exit(1, "job error")
         [] pollOutcome(r) = "success" ->
              pc' = "download" /\ UNCHANGED <<exitCode, stderr>>
         [] pollOutcome(r) = "failure" ->
              Exit(1, "Job failed")
         [] pollOutcome(r) = "continue" ->
              pc' = "select" /\ UNCHANGED <<exitCode, stderr>>
    /\ UNCHANGED <<args, reqs, conc, afterCancel, processed, resolveErr, mediaCalls, named, stdout, prompt, output, jobID, resolvedID, ctxDone, timerReady, nPolls,
                   sent, hist, hist0, appends, fs, fs0, dl>>

(***************************************************************************)
(* main from the DOWNLOAD label on, and downloadFile.                      *)
(***************************************************************************)
\* a variant that writes the body straight to the destination
tmpPath_inplace(outPath) == outPath

\* downloadFile: tmp := outPath + ".part"
tmpPath(outPath) == outPath \o s_part

\* a variant that invents a file name for the stream destination too
defaultOutput_dash(out, id) == IF out = s_empty \/ out = s_dash THEN id \o s_mp4 ELSE out

\* main: if *output == "" { *output = jobID + ".mp4" }
defaultOutput(out, id) == IF out = s_empty THEN id \o s_mp4 ELSE out

\* a variant that writes the body to a file whatever the destination
toStdout_never(outPath) == FALSE

\* downloadFile: toStdout := outPath == "-"
toStdout(outPath) == outPath = s_dash

\* main: the default destination, and downloadFile up to the request
main_download ==
    /\ pc = "download"
    /\ output' = defaultOutput(output, jobID)
    /\ pc' = "dl_do"
    /\ st' = NoStatus
    /\ Do("download")
    /\ reqs' = [reqs EXCEPT !.urls = @ \cup {<<"content", jobID>>}]
    /\ UNCHANGED <<args, conc, afterCancel, processed, resolveErr, mediaCalls, named, exitCode, stderr, stdout, prompt, jobID, resolvedID, ctxDone,
                   timerReady, nPolls, bar, hist, hist0, appends, fs, fs0, dl>>

\* what the content request yields: err, or a 2xx response with n bytes
DownloadResults ==
    {[kind |-> k, n |-> 0] : k \in {"ctx", "transport", "http"}}
    \cup {[kind |-> "ok", n |-> n] : n \in 0..MaxBody}

\* downloadFile: the response arrives; for a named destination the
\* directory and the temporary file are created.
\* io is the outcome of os.MkdirAll and os.Create.
dl_response(r, io) ==
    /\ pc = "dl_do"
    /\ Returnable(r)
    /\ inflight' = FALSE
    /\ IF r.kind # "ok"
       THEN Exit(1, "download error") /\ UNCHANGED <<fs, dl>>
       ELSE IF toStdout(output)
       THEN /\ pc' = "dl_copy"
            /\ dl' = [body |-> BodyOf(r.n), written |-> 0, tmp |-> s_empty]
            /\ UNCHANGED <<exitCode, stderr, fs>>
       ELSE IF (Dir(output) # s_dot /\ Dir(output) # s_empty /\ io = "mkdir") \/ io = "create"
       THEN Exit(1, "download error") /\ UNCHANGED <<fs, dl>>
       ELSE /\ pc' = "dl_copy"
            /\ fs' = WriteFile(fs, tmpPath(output), << >>)
            /\ dl' = [body |-> BodyOf(r.n), written |-> 0, tmp |-> tmpPath(output)]
            /\ UNCHANGED <<exitCode, stderr>>
    /\ UNCHANGED <<args, reqs, conc, afterCancel, processed, resolveErr, mediaCalls, named, stdout, prompt, output, jobID, resolvedID, ctxDone, timerReady, st,
                   nPolls, bar, sent, hist, hist0, appends, fs0>>

\* downloadFile: io.Copy moves the next byte of the body to stdout or to
\* the temporary file (and progressWriter reports it)
dl_copy ==
    /\ pc = "dl_copy"
    /\ dl.written < Len(dl.body)
    /\ dl' = [dl EXCEPT !.written = @ + 1]
    /\ stderr' = "Downloading"
    /\ IF toStdout(output)
       THEN /\ stdout' = Append(stdout, VideoByte(dl.body[dl.written + 1]))
            /\ UNCHANGED fs
       ELSE /\ fs' = WriteFile(fs, dl.tmp, SubSeq(dl.body, 1, dl.written + 1))
            /\ UNCHANGED stdout
    /\ UNCHANGED <<args, reqs, conc, afterCancel, processed, resolveErr, mediaCalls, named, pc, exitCode, prompt, output, jobID, resolvedID, ctxDone, timerReady,
                   st, nPolls, bar, sent, inflight, hist, hist0, appends, fs0>>

\* downloadFile's deferred function: with err set, the temporary file is
\* removed
cleanup(files, tmp, errSet) == IF errSet THEN Remove(files, tmp) ELSE files

\* downloadFile: io.Copy fails (the body cannot be read, or the context is
\* done); err is assigned, so the deferred function removes the file
dl_copy_fail ==
    /\ pc = "dl_copy"
    /\ Exit(1, "download error")
    /\ fs' = IF toStdout(output) THEN fs ELSE cleanup(fs, dl.tmp, TRUE)
    /\ UNCHANGED <<args, reqs, conc, afterCancel, processed, resolveErr, mediaCalls, named, stdout, prompt, output, jobID, resolvedID, ctxDone, timerReady, st,
                   nPolls, bar, sent, inflight, hist, hist0, appends, fs0, dl>>

\* downloadFile: the body is at its end; f.Sync, f.Close and os.Rename.
\* io is the first of them to fail, or "ok". Their errors are returned
\* through variables that shadow err, or directly, so the deferred function
\* sees err == nil.
dl_finish(io) ==
    /\ pc = "dl_copy"
    /\ dl.written = Len(dl.body)
    /\ IF toStdout(output)
       THEN /\ pc' = "record"
            /\ stderr' = "Downloaded"
            /\ UNCHANGED <<exitCode, fs>>
       ELSE IF io # "ok"
       THEN /\ Exit(1, "download error")
            /\ fs' = cleanup(fs, dl.tmp, FALSE)
       ELSE /\ pc' = "record"
            /\ stderr' = "Downloaded"
            /\ fs' = cleanup(Rename(fs, dl.tmp, output), dl.tmp, FALSE)
            /\ UNCHANGED exitCode
    /\ UNCHANGED <<args, reqs, conc, afterCancel, processed, resolveErr, mediaCalls, named, stdout, prompt, output, jobID, resolvedID, ctxDone, timerReady, st,
                   nPolls, bar, sent, inflight, hist, hist0, appends, fs0, dl>>

\* a variant that records the --output flag in place of the resolved path
entryOf_flag ==
    videoHistoryEntry(jobID, prompt, s_now, args.output, model,
                      IF args.inputFile = s_empty THEN NilString ELSE PtrTo(args.inputFile),
                      IF args.remixFrom # s_empty THEN PtrTo(args.remixFrom) ELSE NilString)

\* main: the history entry of the run
entryOf ==
    videoHistoryEntry(jobID, prompt, s_now, output, model,
                      IF args.inputFile = s_empty THEN NilString ELSE PtrTo(args.inputFile),
                      IF args.remixFrom # s_empty THEN PtrTo(args.remixFrom) ELSE NilString)

\* a variant in which a failed addToHistory fails the run
exitAfterRecord_fatal(err) == IF err # "" THEN 1 ELSE 0

\* main: the exit status once addToHistory returned err: main warns and
\* returns either way
exitAfterRecord(err) == 0

\* main: after downloadFile returned nil: the statistics, addToHistory, and
\* the return from main
main_record(ioLoad, ioSave) ==
    /\ pc = "record"
    /\ LET r == addToHistory(hist, entryOf, ioLoad, ioSave)
       IN  /\ hist' = r.file
           /\ stderr' = IF r.err # "" THEN "Warning: failed to save to history"
                        ELSE IF output # s_dash THEN "Total generation time"
                        ELSE stderr
           /\ exitCode' = exitAfterRecord(r.err)
    /\ appends' = appends + 1
    /\ pc' = "exit"
    /\ UNCHANGED <<args, reqs, conc, afterCancel, processed, resolveErr, mediaCalls, named, stdout, prompt, output, jobID, resolvedID, ctxDone, timerReady, st,
                   nPolls, bar, sent, inflight, hist0, fs, fs0, dl>>

LoadIO == {"ok", "home", "read"}
SaveIO == {"ok", "home", "mkdir", "open", "write"}

Next ==
    \/ main_validate
    \/ \E io \in LoadIO : main_list(io)
    \/ \E stdin \in StdinResults : main_setup(stdin)
    \/ ctx_cancel
    \/ \E media \in MediaIO : main_create(media)
    \/ \E io \in LoadIO : main_remix(io)
    \/ \E r \in SubmitErrors \cup SubmitResponses : submit_return(r)
    \/ timer_fire
    \/ select_ctx
    \/ select_timer
    \/ \E r \in StatusErrors \cup StatusResponses : fetch_return(r)
    \/ main_download
    \/ \E r \in DownloadResults, io \in {"ok", "mkdir", "create"} : dl_response(r, io)
    \/ dl_copy
    \/ dl_copy_fail
    \/ \E io \in {"ok", "sync", "close", "rename"} : dl_finish(io)
    \/ \E ioLoad \in LoadIO, ioSave \in SaveIO : main_record(ioLoad, ioSave)

Spec == Init /\ [][Next]_vars

(***************************************************************************)
(* The history file over successive runs: each run that reaches the end of *)
(* its download calls addToHistory once (main_record).                     *)
(***************************************************************************)
\* runs followed from the initial history on
MaxRuns == 3

\* the decimal digits of n >= 0, to number the job ids
RECURSIVE Itoa(_)
Itoa(n) ==
    IF n < 10 THEN <<DigitChars[n + 1]>>
    ELSE Itoa(n \div 10) \o <<DigitChars[(n % 10) + 1]>>

\* the job id the service gives to the n-th job
JobIdOf(n) == <<"v">> \o Itoa(n)

\* the entry main builds for the n-th job (prompt cat, saved to o.mp4)
EntryOfRun(n) ==
    videoHistoryEntry(JobIdOf(n), s_cat, s_now, s_o_mp4, s_sora2, NilString, NilString)

\* the list stored after n appends that all succeeded
Recent(n) ==
    [i \in 1..(IF n > HistoryCap THEN HistoryCap ELSE n) |-> EntryOfRun(n - i + 1)]

\* the history file after any number of successful appends, up to a full
\* store; appends counts them
HistSpecInit ==
    /\ args = [Invocation EXCEPT !.output = s_o_mp4]
    /\ hist \in {HistMissing} \cup {HistOf(Recent(k)) : k \in 0..HistoryCap}
    /\ hist0 = hist
    /\ appends = Len(hist.Videos)
    /\ jobID = JobIdOf(appends + 1)
    /\ pc = "record"
    /\ exitCode = Running
    /\ stderr = "Downloaded"
    /\ stdout = << >>
    /\ prompt = s_cat
    /\ output = s_o_mp4
    /\ resolvedID = s_empty
    /\ ctxDone = FALSE
    /\ timerReady = FALSE
    /\ st = NoStatus
    /\ nPolls = 1
    /\ bar = 100
    /\ sent = [create |-> 1, remix |-> 0, status |-> 1, download |-> 1]
    /\ inflight = FALSE
    /\ fs = {<<s_o_mp4, BodyOf(1)>>}
    /\ fs0 = {}
    /\ dl = [body |-> BodyOf(1), written |-> 1, tmp |-> s_o_mp4 \o s_part]
    /\ mediaCalls = 0
    /\ processed = NoMedia
    /\ afterCancel = 0
    /\ conc = NoAppenders
    /\ reqs = RequestsOf(jobID)
    /\ named = {}
    /\ resolveErr = ""

\* the next run of the program, with the same command line, up to the end
\* of its download: a new process with a new job id
next_run ==
    /\ pc = "exit"
    /\ appends - Len(hist0.Videos) < MaxRuns
    /\ pc' = "record"
    /\ exitCode' = Running
    /\ stderr' = "Downloaded"
    /\ jobID' = JobIdOf(appends + 1)
    /\ reqs' = RequestsOf(jobID')
    /\ UNCHANGED <<args, conc, afterCancel, processed, resolveErr, mediaCalls, named, stdout, prompt, output, resolvedID, ctxDone, timerReady,
                   st, nPolls, bar, sent, inflight, hist, hist0, appends, fs, fs0, dl>>

HistNext ==
    \/ next_run
    \/ \E ioLoad \in LoadIO, ioSave \in SaveIO : main_record(ioLoad, ioSave)

HistSpec == HistSpecInit /\ [][HistNext]_vars

(***************************************************************************)
(* The resolution of remix references: runs with --remix over references   *)
(* of every form and histories of every length up to MaxHist, followed up  *)
(* to the remix request.                                                   *)
(***************************************************************************)
\* the longest history file of ResolveSpec
MaxHist == 3

\* the values of --remix
Refs ==
    { s_atlast, <<"@","0">>, <<"@","1">>, <<"@","2">>, <<"@","3">>, <<"@","4">>,
      <<"@","1","0">>, <<"@","-","1">>, <<"@","+","1">>, s_at, <<"@","x">>, <<"@","1","x">>,
      <<"v","1">>, <<"v","9">>, s_o_mp4, <<"l","a","s","t">> }

\* a history of two entries whose most recent video was saved to d/o.mp4
HistSubdir == HistOf(<<[EntryOfRun(2) EXCEPT !.OutputFile = s_d_o_mp4], EntryOfRun(1)>>)

ResolveInit ==
    /\ args \in {[Invocation EXCEPT !.remixFrom = r] : r \in Refs}
    /\ hist \in {HistMissing, HistCorrupt, HistSubdir} \cup {HistOf(Recent(k)) : k \in 0..MaxHist}
    /\ fs = {}
    /\ hist0 = hist
    /\ fs0 = fs
    /\ pc = "start"
    /\ exitCode = Running
    /\ stderr = ""
    /\ stdout = << >>
    /\ prompt = args.prompt
    /\ output = args.output
    /\ jobID = s_empty
    /\ resolvedID = s_empty
    /\ ctxDone = FALSE
    /\ timerReady = FALSE
    /\ st = NoStatus
    /\ nPolls = 0
    /\ bar = 0
    /\ sent = [create |-> 0, remix |-> 0, status |-> 0, download |-> 0]
    /\ inflight = FALSE
    /\ appends = 0
    /\ dl = NoDownload
    /\ mediaCalls = 0
    /\ processed = NoMedia
    /\ afterCancel = 0
    /\ conc = NoAppenders
    /\ reqs = NoRequests
    /\ named = {}
    /\ resolveErr = ""

ResolveNext ==
    \/ main_validate
    \/ \E stdin \in StdinResults : main_setup(stdin)
    \/ ctx_cancel
    \/ \E io \in LoadIO : main_remix(io)

ResolveSpec == ResolveInit /\ [][ResolveNext]_vars

(***************************************************************************)
(* Runs with an input file, up to the create request: every kind of path   *)
(* and of file, with and without ffmpeg, for both orientations.            *)
(***************************************************************************)
InputPaths ==
    {s_in_png,
     <<"i","n",".","J","P","G">>,
     <<"i","n",".","j","p","e","g">>,
     <<"i","n",".","w","e","b","p">>,
     <<"d","/","i","n",".","m","p","4">>,
     <<"i","n",".","m","o","v">>,
     <<"i","n",".","g","i","f">>,
     <<"i","n",".","b","i","n">>,
     <<"i","n">>,
     <<"d",".","x","/","i","n">>}

InputFiles ==
    {NoFile, FileOf("junk", 0, 0, FALSE), FileOf("mp4", 0, 0, FALSE)}
    \cup {FileOf(c, 1280, 720, k) : c \in {"png", "jpeg"}, k \in BOOLEAN}
    \cup {FileOf("png", 720, 1280, TRUE), FileOf("webp", 1280, 720, FALSE),
          FileOf("jpeg", 640, 480, FALSE), FileOf("jpeg", 50, 80, FALSE),
          FileOf("png", 2000, 100, FALSE), FileOf("png", 99, 3000, FALSE),
          FileOf("gif", 1, 1, FALSE)}
    \cup {FileOf("mp4", 1280, 720, FALSE), FileOf("mp4", 720, 1280, FALSE),
          FileOf("mp4", 640, 480, FALSE)}

MediaInit ==
    /\ args \in {[Invocation EXCEPT !.inputFile = p, !.file = f, !.ffmpeg = b, !.portrait = o] :
                    p \in InputPaths, f \in InputFiles, b \in BOOLEAN, o \in BOOLEAN}
    /\ hist = HistMissing
    /\ fs = {}
    /\ hist0 = hist
    /\ fs0 = fs
    /\ pc = "start"
    /\ exitCode = Running
    /\ stderr = ""
    /\ stdout = << >>
    /\ prompt = args.prompt
    /\ output = args.output
    /\ jobID = s_empty
    /\ resolvedID = s_empty
    /\ ctxDone = FALSE
    /\ timerReady = FALSE
    /\ st = NoStatus
    /\ nPolls = 0
    /\ bar = 0
    /\ sent = [create |-> 0, remix |-> 0, status |-> 0, download |-> 0]
    /\ inflight = FALSE
    /\ appends = 0
    /\ dl = NoDownload
    /\ mediaCalls = 0
    /\ processed = NoMedia
    /\ afterCancel = 0
    /\ conc = NoAppenders
    /\ reqs = NoRequests
    /\ named = {}
    /\ resolveErr = ""

MediaNext ==
    \/ main_validate
    \/ \E stdin \in StdinResults : main_setup(stdin)
    \/ ctx_cancel
    \/ \E media \in MediaIO : main_create(media)

MediaSpec == MediaInit /\ [][MediaNext]_vars

(***************************************************************************)
(* Runs under the scheduling the program relies on. The deadline of the    *)
(* context expires (ctx_cancel); main takes its next step; a call of the   *)
(* client returns, at the latest with the context's error; a read of the   *)
(* body returns; a select with a ready case proceeds, and as it chooses at *)
(* random among the ready cases, a case that is ready again and again is   *)
(* chosen in the end. Nothing is assumed of the poll timer or of what the  *)
(* remote answers.                                                         *)
(***************************************************************************)
LiveArgs ==
    {Invocation,
     [Invocation EXCEPT !.output = s_dash],
     [Invocation EXCEPT !.remixFrom = s_atlast],
     [Invocation EXCEPT !.listHistory = TRUE]}

LiveInit == Init /\ args \in LiveArgs /\ hist = HistOf(<<e_old>>) /\ fs = {}

Fairness ==
    /\ WF_vars(ctx_cancel)
    /\ WF_vars(\E media \in MediaIO : main_create(media))
    /\ WF_vars(\E io \in LoadIO : main_remix(io))
    /\ WF_vars(\E r \in SubmitErrors \cup SubmitResponses : submit_return(r))
    /\ WF_vars(select_ctx \/ select_timer)
    /\ SF_vars(select_ctx)
    /\ WF_vars(\E r \in StatusErrors \cup StatusResponses : fetch_return(r))
    /\ WF_vars(main_download)
    /\ WF_vars(\E r \in DownloadResults, io \in {"ok", "mkdir", "create"} : dl_response(r, io))
    /\ WF_vars(dl_copy \/ dl_copy_fail \/ (\E io \in {"ok", "sync", "close", "rename"} : dl_finish(io)))
    /\ WF_vars(\E ioLoad \in LoadIO, ioSave \in SaveIO : main_record(ioLoad, ioSave))

LiveSpec == LiveInit /\ [][Next]_vars /\ Fairness

(***************************************************************************)
(* Two invocations that reach addToHistory at the same time, on one        *)
(* history file. addToHistory is taken apart into the steps another        *)
(* process can see: loadHistory has read the file; os.WriteFile has opened *)
(* and truncated it; os.WriteFile has written the document.                *)
(***************************************************************************)
\* the entry of invocation p
EntryOfProc(p) == EntryOfRun(Len(hist0.Videos) + p)

ConcInit ==
    /\ args = [Invocation EXCEPT !.output = s_o_mp4]
    /\ hist \in {HistMissing} \cup {HistOf(Recent(k)) : k \in {0, 1, 2, HistoryCap - 2, HistoryCap - 1, HistoryCap}}
    /\ hist0 = hist
    /\ appends = 0
    /\ jobID = JobIdOf(Len(hist.Videos) + 1)
    /\ pc = "record"
    /\ exitCode = Running
    /\ stderr = "Downloaded"
    /\ stdout = << >>
    /\ prompt = args.prompt
    /\ output = args.output
    /\ resolvedID = s_empty
    /\ ctxDone = FALSE
    /\ timerReady = FALSE
    /\ st = NoStatus
    /\ nPolls = 1
    /\ bar = 100
    /\ sent = [create |-> 1, remix |-> 0, status |-> 1, download |-> 1]
    /\ inflight = FALSE
    /\ fs = {<<s_o_mp4, BodyOf(1)>>}
    /\ fs0 = {}
    /\ dl = [body |-> BodyOf(1), written |-> 1, tmp |-> tmpPath(s_o_mp4)]
    /\ mediaCalls = 0
    /\ processed = NoMedia
    /\ afterCancel = 0
    /\ conc = NoAppenders
    /\ reqs = RequestsOf(jobID)
    /\ named = {}
    /\ resolveErr = ""

\* addToHistory of invocation p: loadHistory. A file that another process
\* has truncated and not yet written does not parse.
h_load(p) ==
    /\ conc.proc[p].pc = "idle"
    /\ LET h == loadHistory(hist, "ok")
       IN  conc' = [conc EXCEPT
                      !.proc[p] = IF h.err # ""
                                  THEN [@ EXCEPT !.pc = "done", !.err = h.err]
                                  ELSE [@ EXCEPT !.pc = "loaded", !.loaded = h.Videos],
                      !.overlap = @ \/ \E q \in Procs \ {p} : conc.proc[q].pc \in {"loaded", "writing"}]
    /\ UNCHANGED <<args, reqs, afterCancel, processed, resolveErr, mediaCalls, named, pc, exitCode, stderr, stdout, prompt, output, jobID, resolvedID,
                   ctxDone, timerReady, st, nPolls, bar, sent, inflight, hist, hist0, appends, fs, fs0, dl>>

\* saveHistory of invocation p: os.WriteFile opens the file with O_TRUNC
h_open(p) ==
    /\ conc.proc[p].pc = "loaded"
    /\ hist' = HistCorrupt
    /\ conc' = [conc EXCEPT !.proc[p] = [@ EXCEPT !.pc = "writing", !.openedAt = conc.writes]]
    /\ UNCHANGED <<args, reqs, afterCancel, processed, resolveErr, mediaCalls, named, pc, exitCode, stderr, stdout, prompt, output, jobID, resolvedID,
                   ctxDone, timerReady, st, nPolls, bar, sent, inflight, hist0, appends, fs, fs0, dl>>

\* saveHistory of invocation p: os.WriteFile writes the document at offset 0
\* and returns nil. After another process wrote since the file was
\* truncated, its longer document may stick out behind this one (torn).
h_write(p, torn) ==
    /\ conc.proc[p].pc = "writing"
    /\ torn => conc.writes > conc.proc[p].openedAt
    /\ hist' = IF torn THEN HistCorrupt
               ELSE HistOf(Prepended(EntryOfProc(p), conc.proc[p].loaded))
    /\ conc' = [conc EXCEPT !.proc[p] = [@ EXCEPT !.pc = "done"], !.writes = @ + 1]
    /\ appends' = appends + 1
    /\ UNCHANGED <<args, reqs, afterCancel, processed, resolveErr, mediaCalls, named, pc, exitCode, stderr, stdout, prompt, output, jobID, resolvedID,
                   ctxDone, timerReady, st, nPolls, bar, sent, inflight, hist0, fs, fs0, dl>>

ConcNext ==
    \/ \E p \in Procs : h_load(p)
    \/ \E p \in Procs : h_open(p)
    \/ \E p \in Procs, torn \in BOOLEAN : h_write(p, torn)

ConcSpec == ConcInit /\ [][ConcNext]_vars

(***************************************************************************)
(* Vocabulary of the properties, stated apart from the program's own       *)
(* definitions.                                                            *)
(***************************************************************************)
SuccessWords == {s_succeeded, s_completed, s_complete, s_done, s_ready}
FailureWords == {s_failed, s_error}

\* two characters are the same letter up to case
SameLetter(a, b) ==
    a = b \/ \E k \in 1..Len(UpperChars) : {a, b} = {UpperChars[k], LowerChars[k]}

\* two strings are equal up to case
EqualFold(a, b) == Len(a) = Len(b) /\ \A i \in 1..Len(a) : SameLetter(a[i], b[i])

InWords(s, W) == \E w \in W : EqualFold(s, w)

\* the video bytes written to stdout
VideoBytes == [i \in 1..Len(SelectSeq(stdout, LAMBDA x : x[1] = "video")) |->
                 SelectSeq(stdout, LAMBDA x : x[1] = "video")[i][2]]

\* the download has completed in full: every byte of the body is written,
\* and for a named destination the file is renamed into place
DownloadComplete ==
    /\ dl.written = Len(dl.body)
    /\ IF output = s_dash
       THEN VideoBytes = dl.body
       ELSE /\ FileExists(fs, output)
            /\ ReadFile(fs, output) = dl.body
            /\ ~FileExists(fs, output \o s_part)

Submits == sent.create + sent.remix

(***************************************************************************)
(* C1: the submit request has returned a job id before the first status    *)
(* poll; the download request is issued only from a status poll that       *)
(* returned a success status; the history append happens only after the    *)
(* download completed in full.                                             *)
(***************************************************************************)
C1_Ordering ==
    /\ [](nPolls > 0 =>
            /\ jobID # s_empty
            /\ Submits = 1
            /\ pc \notin {"start", "validated", "branch", "submit"})
    /\ [][(sent'.download # sent.download \/ (pc # "dl_do" /\ pc' = "dl_do")) =>
            /\ pc = "download"
            /\ nPolls > 0
            /\ st.kind = "ok"
            /\ InWords(st.Status, SuccessWords)]_vars
    /\ [][(appends' # appends \/ hist' # hist) =>
            /\ pc = "record"
            /\ sent.download = 1
            /\ DownloadComplete]_vars

C1_Witness ==
    /\ pc = "exit" /\ exitCode = 0
    /\ appends = 1 /\ nPolls = 2 /\ sent.download = 1
    /\ output = s_o_mp4
    /\ hist # hist0

(***************************************************************************)
(* C2: a run sends at most one submit request, exactly one once the        *)
(* submission is under way: a remix request when a remix reference was     *)
(* given, a create request otherwise; a failed submission ends the run     *)
(* with exit status 1 and no second attempt.                               *)
(***************************************************************************)
C2_OneSubmit ==
    /\ Submits <= 1
    /\ sent.remix = 1 => args.remixFrom # s_empty
    /\ sent.create = 1 => args.remixFrom = s_empty
    /\ ((pc = "submit" /\ inflight) \/ jobID # s_empty) => Submits = 1
    /\ stderr = "create job error" =>
          pc = "exit" /\ exitCode = 1 /\ jobID = s_empty /\ nPolls = 0 /\ sent.status = 0

C2_Witness ==
    /\ pc = "exit" /\ stderr = "create job error"
    /\ sent.remix = 1 /\ sent.create = 0

(***************************************************************************)
(* C3: a status poll that fails with a transport error does not end the    *)
(* run: it is logged and the loop goes back to the wait; the polling loop  *)
(* is left for the exit only on a job error, a failure status or a done    *)
(* context.                                                                *)
(***************************************************************************)
C3_TransportRetried ==
    /\ [][(pc = "fetch" /\ pc' # "fetch" /\ st'.kind = "transport") =>
            /\ pc' = "select"
            /\ exitCode' = Running
            /\ stderr' = "poll error"
            /\ ~timerReady'
            /\ sent'.download = 0 /\ appends' = 0]_vars
    /\ [][(pc \in {"select", "fetch"} /\ pc' = "exit") =>
            \/ stderr' = "Context canceled or timed out before completion" /\ ctxDone
            \/ stderr' = "job error" /\ st'.kind = "ok" /\ st'.Error.Message # s_empty
            \/ stderr' = "Job failed" /\ st'.kind = "ok" /\ InWords(st'.Status, FailureWords)]_vars

\* a third poll is in flight after the second one failed and was logged
C3_Witness ==
    /\ pc = "fetch" /\ inflight /\ ~ctxDone
    /\ nPolls = 3 /\ sent.status = 3
    /\ stderr = "poll error"

\* the run has ended in failure, having sent no download request and
\* written nothing: no history entry, no file, no video byte
FailedClean ==
    /\ pc = "exit" /\ exitCode = 1
    /\ sent.download = 0
    /\ appends = 0 /\ hist = hist0
    /\ fs = fs0 /\ VideoBytes = << >>

(***************************************************************************)
(* C4, as stated: a status response that carries a job-level error field   *)
(* ends the run in failure, whatever the status and whatever the message   *)
(* text.                                                                   *)
(***************************************************************************)
C4_AnyErrorFieldFatal ==
    (st.kind = "ok" /\ st.Error.present) => (pc = "exit" /\ exitCode = 1)

(***************************************************************************)
(* C4, amended: a status response whose error field has a non-empty        *)
(* message ends the run in failure with the job error reported, whatever   *)
(* the status: no download request, no history write, and no step after    *)
(* the exit. An error field with an empty message never yields the job     *)
(* error outcome.                                                          *)
(***************************************************************************)
C4_ErrorMessageFatal ==
    /\ []((st.kind = "ok" /\ st.Error.present /\ st.Error.Message # s_empty) =>
            (FailedClean /\ stderr = "job error"))
    /\ []((st.kind = "ok" /\ st.Error.Message = s_empty) => stderr # "job error")
    /\ [][pc # "exit"]_vars

\* a response with a success status and an error message ended the run
C4_Witness ==
    /\ st.kind = "ok" /\ st.Error.Message = s_boom
    /\ st.Status = <<"D","o","n","e">>
    /\ pc = "exit" /\ nPolls = 2

(***************************************************************************)
(* C5: a status response whose status is in the failure vocabulary, on     *)
(* whichever poll, ends the run in failure with a job-failure outcome,     *)
(* with no download request and no history write.                          *)
(***************************************************************************)
C5_FailureStatusFatal ==
    (st.kind = "ok" /\ InWords(st.Status, FailureWords)) =>
        /\ FailedClean
        /\ stderr \in {"Job failed", "job error"}
        /\ stderr = "job error" <=> st.Error.Message # s_empty

\* the second poll returned "ERROR"
C5_Witness ==
    /\ st.kind = "ok" /\ st.Status = <<"E","R","R","O","R">>
    /\ nPolls = 2 /\ sent.status = 2
    /\ pc = "exit" /\ stderr = "Job failed"

(***************************************************************************)
(* C6: a status string (of a response without an error message) is         *)
(* classified up to case: a success word leads to the download, a failure  *)
(* word to the exit, any other string back to the wait.                    *)
(***************************************************************************)
C6_Classification ==
    (st.kind = "ok" /\ st.Error.Message = s_empty) =>
        /\ InWords(st.Status, SuccessWords) => pc = "download"
        /\ InWords(st.Status, FailureWords) => pc = "exit" /\ stderr = "Job failed"
        /\ (~InWords(st.Status, SuccessWords) /\ ~InWords(st.Status, FailureWords)) =>
              \/ pc = "select"
              \/ pc = "exit" /\ stderr = "Context canceled or timed out before completion"

\* "READY" in capitals led to the download
C6_Witness ==
    /\ st.kind = "ok" /\ st.Status = <<"R","E","A","D","Y">>
    /\ pc = "download"

(***************************************************************************)
(* C7: when the wait of the polling loop finds the context done, the run   *)
(* ends with exit status 1 and the line "Context canceled or timed out     *)
(* before completion", which is not a job-failure line; once the context   *)
(* is done before any download request, no download request is sent and    *)
(* nothing is written.                                                     *)
(***************************************************************************)
C7_Cancelled ==
    /\ [](stderr = "Context canceled or timed out before completion" =>
            (FailedClean /\ ctxDone))
    /\ [][(pc = "select" /\ ctxDone /\ ~timerReady /\ pc' # "select") =>
            /\ pc' = "exit" /\ exitCode' = 1
            /\ stderr' = "Context canceled or timed out before completion"
            /\ stderr' \notin {"Job failed", "job error"}]_vars
    /\ []((ctxDone /\ sent.download = 0) =>
            (appends = 0 /\ hist = hist0 /\ fs = fs0 /\ VideoBytes = << >>))
    /\ [][(ctxDone /\ sent.download = 0) => sent'.download = 0]_vars

\* the context was done at the wait after two polls
C7_Witness ==
    /\ pc = "exit" /\ ctxDone
    /\ stderr = "Context canceled or timed out before completion"
    /\ nPolls = 2 /\ sent.status = 2

(***************************************************************************)
(* C8, as stated: the wait never takes the timer case while the context    *)
(* is done, so no status call is started once cancellation is ready.       *)
(***************************************************************************)
C8_CancelPrecedence ==
    pc = "fetch" => inflight

(***************************************************************************)
(* C8, amended: with both cases ready the wait may take either; a status   *)
(* call started while the context is done sends no request, returns the    *)
(* context's error, is logged and leads back to the wait; no request of    *)
(* any kind is sent once the context is done; with only the context done   *)
(* the wait takes the cancellation case.                                   *)
(***************************************************************************)
C8_NoRequestAfterCancel ==
    /\ []((pc = "fetch" /\ ~inflight) => ctxDone)
    /\ [][ctxDone => sent' = sent]_vars
    /\ [][(pc = "fetch" /\ ~inflight /\ pc' # "fetch") =>
            /\ pc' = "select"
            /\ st'.kind = "ctx"
            /\ stderr' = "poll error"]_vars
    /\ [][(pc = "select" /\ ctxDone /\ ~timerReady /\ pc' # "select") => pc' = "exit"]_vars

\* a status call was started with the context done and came back to the wait
C8_Witness ==
    /\ pc = "select" /\ st.kind = "ctx" /\ ctxDone
    /\ nPolls = 2 /\ sent.status = 1

\* the destination of the run's artifact
Destination == IF args.output = s_empty THEN jobID \o s_mp4 ELSE args.output

(***************************************************************************)
(* C9: a run sends at most one download request and appends at most one    *)
(* history entry; a run that ends successfully has polled, sent exactly    *)
(* one download request and appended exactly once, and the entry stored is *)
(* the first of the list, with the job id as id and the destination as     *)
(* output file, the earlier entries following unchanged.                   *)
(***************************************************************************)
C9_OneDownloadOneEntry ==
    /\ sent.download <= 1
    /\ appends <= 1
    /\ pc = "record" => sent.download = 1
    /\ hist # hist0 => (pc = "exit" /\ exitCode = 0 /\ appends = 1)
    /\ (pc = "exit" /\ exitCode = 0 /\ ~args.listHistory) =>
          /\ nPolls >= 1
          /\ sent.download = 1
          /\ appends = 1
          /\ (hist # hist0 /\ hist.state = "ok") =>
                /\ Len(hist.Videos) = Len(hist0.Videos) + 1
                /\ Tail(hist.Videos) = hist0.Videos
                /\ Head(hist.Videos).ID = jobID
                /\ Head(hist.Videos).OutputFile = Destination

\* queued, running, succeeded over three polls, saved to o.mp4 and recorded
C9_Witness ==
    /\ pc = "exit" /\ exitCode = 0
    /\ nPolls = 3 /\ bar = 100
    /\ args.output = s_o_mp4
    /\ hist.state = "ok" /\ Len(hist.Videos) = 2
    /\ Head(hist.Videos).OutputFile = s_o_mp4

(***************************************************************************)
(* C10: in every state, every file is as it was before the run, or is the  *)
(* temporary file of the download, or is the destination holding the       *)
(* complete body after the download finished; a file that existed before   *)
(* the run is unchanged unless it is the destination and now holds the     *)
(* complete body. Streaming to stdout touches no file.                     *)
(***************************************************************************)
C10_FinalPathNeverPartial ==
    /\ \A f \in fs :
          \/ f \in fs0
          \/ f[1] = output \o s_part
          \/ /\ f[1] = output
             /\ pc \in {"record", "exit"}
             /\ dl.written = Len(dl.body)
             /\ f[2] = dl.body
    /\ \A f \in fs0 :
          \/ f \in fs
          \/ /\ f[1] = output
             /\ FileExists(fs, output)
             /\ dl.written = Len(dl.body)
             /\ ReadFile(fs, output) = dl.body
    /\ output = s_dash => fs = fs0

\* the copy failed after one byte of two: the old file is still in place
C10_Witness ==
    /\ pc = "exit" /\ exitCode = 1
    /\ dl.written = 1 /\ Len(dl.body) = 2
    /\ FileExists(fs, output) /\ ReadFile(fs, output) = OldData
    /\ ~FileExists(fs, output \o s_part)

(***************************************************************************)
(* C11: when a download to a named destination has failed after its        *)
(* temporary file was created, the temporary file does not exist once      *)
(* downloadFile has returned.                                              *)
(***************************************************************************)
C11_TmpRemovedOnFailure ==
    (pc = "exit" /\ stderr = "download error" /\ dl.tmp # s_empty) =>
        ~FileExists(fs, dl.tmp)

\* the part of C11 that the code keeps: a failed copy leaves no temporary
\* file behind
C11_TmpRemovedOnCopyFailure ==
    (pc = "exit" /\ stderr = "download error" /\ dl.tmp # s_empty
        /\ dl.written < Len(dl.body)) => ~FileExists(fs, dl.tmp)

HistoryWarning == "Warning: failed to save to history"

(***************************************************************************)
(* C12: when addToHistory fails after a successful download (the history   *)
(* cannot be loaded, parsed or written), the run ends with exit status 0   *)
(* and the warning as its last line; the artifact is complete at its       *)
(* destination and the step touches no file and no standard output.        *)
(***************************************************************************)
C12_HistoryFailureNonFatal ==
    /\ [](stderr = HistoryWarning =>
            /\ pc = "exit" /\ exitCode = 0
            /\ appends = 1 /\ sent.download = 1
            /\ DownloadComplete)
    /\ [][(pc = "record" /\ pc' # "record") =>
            /\ pc' = "exit" /\ exitCode' = 0
            /\ fs' = fs /\ stdout' = stdout
            /\ (hist'.state # "ok" \/ hist' = hist) => stderr' = HistoryWarning]_vars

\* the write of the history file failed after the video was saved to o.mp4
C12_Witness ==
    /\ pc = "exit" /\ exitCode = 0 /\ stderr = HistoryWarning
    /\ hist0 = HistOf(<<e_old>>) /\ hist = HistCorrupt
    /\ output = s_o_mp4 /\ FileExists(fs, s_o_mp4) /\ ReadFile(fs, s_o_mp4) = dl.body
    /\ Len(dl.body) = 2

(***************************************************************************)
(* C13: a non-2xx response is fatal for every request. Stated for the      *)
(* status poll, the request whose response the loop keeps in st: a poll    *)
(* answered with a non-2xx response ends the run with exit status 1.       *)
(***************************************************************************)
C13_Non2xxPollFatal ==
    st.kind = "http" => (pc = "exit" /\ exitCode = 1)

\* what the code does with a non-2xx response to a status poll: it logs a
\* poll error and returns to the wait, and a later poll may be sent
C13_Non2xxPollRetried ==
    [][(pc = "fetch" /\ pc' # "fetch" /\ st'.kind = "http") =>
            (pc' = "select" /\ stderr' = "poll error" /\ exitCode' = Running)]_vars

NothingSent == sent = [create |-> 0, remix |-> 0, status |-> 0, download |-> 0]

\* the flags of the invocation do not pass main's validation
InvalidFlags ==
    \/ args.seconds \notin {<<"4">>, <<"8">>, <<"1","2">>}
    \/ args.portrait /\ args.landscape
    \/ /\ args.remixFrom # << >>
       /\ args.usePro \/ args.portrait \/ args.landscape \/ args.secondsChanged

ValidationErrors ==
    {"Cannot use with --remix", "Invalid --seconds value",
     "Cannot use both --portrait and --landscape"}

(***************************************************************************)
(* C14: a run that ends with a validation error or with a remix            *)
(* resolution error has a non-zero exit status, has sent no request, has   *)
(* processed no input file and has written nothing; invalid flags always   *)
(* end the run at the validation with status 2, and a remix reference on   *)
(* a history without entries always ends it at the resolution with         *)
(* status 1.                                                               *)
(***************************************************************************)
C14_EarlyErrorsBeforeWork ==
    /\ []((stderr \in ValidationErrors \cup {"failed to resolve remix reference"}) =>
            /\ pc = "exit" /\ exitCode \in {1, 2}
            /\ NothingSent /\ ~inflight
            /\ mediaCalls = 0
            /\ fs = fs0 /\ hist = hist0 /\ stdout = << >>)
    /\ [][(pc = "start" /\ pc' # "start" /\ InvalidFlags) =>
            (pc' = "exit" /\ exitCode' = 2 /\ stderr' \in ValidationErrors)]_vars
    /\ [][(pc = "branch" /\ pc' # "branch" /\ args.remixFrom # << >>
              /\ hist.Videos = << >>) =>
            /\ pc' = "exit" /\ exitCode' = 1
            /\ stderr' = "failed to resolve remix reference"
            /\ sent' = sent]_vars

\* --remix @1 --file in.png on a history of one entry: index out of range
C14_Witness ==
    /\ pc = "exit" /\ exitCode = 1
    /\ stderr = "failed to resolve remix reference"
    /\ args.remixFrom = <<"@","1">> /\ args.inputFile = s_in_png
    /\ hist = HistOf(<<e_old>>)

\* the flags given on the command line that a remix inherits from the
\* original video
GivenWithRemix ==
    (IF args.usePro THEN {"--pro"} ELSE {})
    \cup (IF args.portrait THEN {"--portrait"} ELSE {})
    \cup (IF args.landscape THEN {"--landscape"} ELSE {})
    \cup (IF args.secondsChanged THEN {"--seconds"} ELSE {})

(***************************************************************************)
(* C15: --remix with an explicit --seconds, --pro, --portrait or           *)
(* --landscape is rejected at the validation with exit status 2 and an     *)
(* error that names exactly the conflicting flags given, before any        *)
(* request; a remix with none of them passes the validation.               *)
(***************************************************************************)
C15_RemixConflicts ==
    /\ [](stderr = "Cannot use with --remix" =>
            /\ pc = "exit" /\ exitCode = 2
            /\ args.remixFrom # << >>
            /\ named = GivenWithRemix /\ named # {}
            /\ NothingSent /\ ~inflight /\ mediaCalls = 0)
    /\ [][(pc = "start" /\ pc' # "start" /\ args.remixFrom # << >>) =>
            IF GivenWithRemix # {}
            THEN /\ pc' = "exit" /\ exitCode' = 2
                 /\ stderr' = "Cannot use with --remix"
                 /\ named' = GivenWithRemix
            ELSE pc' = "validated" /\ exitCode' = Running /\ named' = {}]_vars

\* all four flags were given with --remix and all four are named
C15_Witness ==
    /\ pc = "exit" /\ stderr = "Cannot use with --remix"
    /\ named = {"--pro", "--portrait", "--landscape", "--seconds"}

\* the number of the run that made an entry, read back from its id
RunOf(e) == DecValue(Tail(e.ID), 0)

\* the list a history file holds (none when the file is missing)
Stored(file) == IF file.state = "ok" THEN file.Videos ELSE << >>

(***************************************************************************)
(* C16: over successive appends, whenever the history file holds a list,   *)
(* the list has at most 100 entries and is in most-recent-first order:     *)
(* every entry was appended after the one that follows it; a successful    *)
(* append puts the entry of the run at position 0; and appends that all    *)
(* succeed leave exactly the most recent (up to 100) entries.              *)
(***************************************************************************)
C16_BoundedMostRecentFirst ==
    /\ [](hist.state = "ok" =>
            /\ Len(hist.Videos) <= 100
            /\ \A i \in 1..(Len(hist.Videos) - 1) :
                  RunOf(hist.Videos[i]) > RunOf(hist.Videos[i + 1])
            /\ \A i \in 1..Len(hist.Videos) : RunOf(hist.Videos[i]) \in 1..appends)
    /\ [][(hist' # hist /\ hist'.state = "ok") =>
            /\ pc = "record"
            /\ Head(hist'.Videos).ID = jobID
            /\ RunOf(Head(hist'.Videos)) = appends'
            /\ Stored(hist) = Recent(appends) => hist'.Videos = Recent(appends')]_vars

\* a full store after three more runs, of which the second failed
C16_Witness ==
    /\ hist.state = "ok" /\ Len(hist.Videos) = 100 /\ Len(hist0.Videos) = 100
    /\ appends = 103 /\ pc = "exit"
    /\ RunOf(hist.Videos[1]) = 103 /\ RunOf(hist.Videos[2]) = 101
    /\ RunOf(hist.Videos[100]) = 3

(***************************************************************************)
(* C17: an append that reports no error stores exactly the first 100       *)
(* elements of the new entry followed by the previous list: the new entry  *)
(* is first, every earlier entry follows unchanged and in the same order,  *)
(* and from a store of 100 entries only the last one is dropped.           *)
(***************************************************************************)
C17_AppendFrame ==
    [][(pc = "record" /\ pc' = "exit" /\ stderr' # HistoryWarning) =>
          LET old == Stored(hist)
              new == hist'.Videos
          IN  /\ hist'.state = "ok"
              /\ Len(new) = (IF Len(old) >= 100 THEN 100 ELSE Len(old) + 1)
              /\ new[1] = EntryOfRun(appends')
              /\ new[1].ID = jobID
              /\ \A i \in 2..Len(new) : new[i] = old[i - 1]
              /\ \A i \in 1..Len(old) :
                    (\E j \in 1..Len(new) : new[j] = old[i]) <=> (i < 100)]_vars

\* the 101st entry was appended to a full store: the oldest one is gone
C17_Witness ==
    /\ Len(hist0.Videos) = 100 /\ hist.state = "ok" /\ Len(hist.Videos) = 100
    /\ appends = 101
    /\ hist.Videos[1] = EntryOfRun(101)
    /\ hist.Videos[100] = hist0.Videos[99]
    /\ \A i \in 1..100 : hist.Videos[i] # hist0.Videos[100]

\* the index token of position n
IndexRef(n) == <<"@">> \o Itoa(n)

\* main leaves the remix branch with a history that was loaded
Resolved == pc = "branch" /\ pc' # "branch" /\ resolveErr' # "loading history"

(***************************************************************************)
(* C18: on a history of L >= 1 entries, "@last" resolves to the id of the  *)
(* entry at position 0, the most recent one; "@N" resolves to the id of    *)
(* the entry at position N when N < L, and fails with index out of range,  *)
(* with no id and no request, when N >= L.                                 *)
(***************************************************************************)
C18_ResolveByPosition ==
    [][(Resolved /\ hist.state = "ok" /\ Len(hist.Videos) >= 1) =>
          /\ args.remixFrom = <<"@","l","a","s","t">> =>
                /\ resolveErr' = "" /\ pc' = "submit"
                /\ resolvedID' = hist.Videos[1].ID
                /\ resolvedID' = JobIdOf(Len(hist.Videos))
          /\ \A n \in 0..12 : args.remixFrom = IndexRef(n) =>
                IF n < Len(hist.Videos)
                THEN /\ resolveErr' = "" /\ pc' = "submit"
                     /\ resolvedID' = hist.Videos[n + 1].ID
                     /\ resolvedID' = JobIdOf(Len(hist.Videos) - n)
                ELSE /\ resolveErr' = "index out of range"
                     /\ resolvedID' = << >>
                     /\ pc' = "exit" /\ exitCode' = 1
                     /\ sent' = sent /\ ~inflight']_vars

\* "@2" on a history of three entries resolved to the oldest one
C18_Witness ==
    /\ pc = "submit" /\ args.remixFrom = <<"@","2">>
    /\ Len(hist.Videos) = 3
    /\ resolvedID = <<"v","1">> /\ resolveErr = ""

(***************************************************************************)
(* C19: resolve fails with "no videos in history" only for "@last" and     *)
(* for references of the "@" form: on a history without entries any other  *)
(* reference does not fail this way.                                       *)
(***************************************************************************)
C19_EmptyHistoryOnlyForShortcuts ==
    resolveErr = "no videos in history" =>
        (args.remixFrom # << >> /\ Head(args.remixFrom) = "@")

\* what the code does: with a history loaded, the resolution fails with
\* "no videos in history" exactly when the history has no entries,
\* whatever the reference
C19_EmptyHistoryForAnyReference ==
    /\ [][Resolved => (resolveErr' = "no videos in history" <=> Stored(hist) = << >>)]_vars
    /\ [](resolveErr = "no videos in history" => (pc = "exit" /\ exitCode = 1 /\ NothingSent))

\* the reference has none of the "@" forms and is no recorded output file
Literal(ref) ==
    /\ ref # << >> /\ Head(ref) # "@"
    /\ \A i \in 1..Len(hist.Videos) : hist.Videos[i].OutputFile # ref

(***************************************************************************)
(* C20: a reference that is not "@last", not an index token and no         *)
(* recorded output file is returned unchanged as the id, and the remix     *)
(* request is sent for that id.                                            *)
(***************************************************************************)
C20_LiteralPassedThrough ==
    [][(Resolved /\ Literal(args.remixFrom)) =>
          /\ resolveErr' = "" /\ pc' = "submit"
          /\ resolvedID' = args.remixFrom
          /\ ~ctxDone => (sent'.remix = 1 /\ inflight')]_vars

\* what the code does: the reference is passed through when the history
\* has at least one entry
C20_LiteralPassedThroughNonEmpty ==
    [][(Resolved /\ Literal(args.remixFrom) /\ Stored(hist) # << >>) =>
          /\ resolveErr' = "" /\ pc' = "submit"
          /\ resolvedID' = args.remixFrom
          /\ ~ctxDone => (sent'.remix = 1 /\ inflight')]_vars

\* the positions of the entries whose output file, or its base name, is ref
Matches(ref) ==
    {i \in 1..Len(hist.Videos) :
        \/ hist.Videos[i].OutputFile = ref
        \/ \E k \in 0..Len(hist.Videos[i].OutputFile) :
              /\ k = 0 \/ hist.Videos[i].OutputFile[k] = "/"
              /\ SubSeq(hist.Videos[i].OutputFile, k + 1, Len(hist.Videos[i].OutputFile)) = ref
              /\ \A m \in 1..Len(ref) : ref[m] # "/"}

(***************************************************************************)
(* C21: a reference equal to the output file of a recorded entry, or to    *)
(* the base name of that output file, resolves to the id of the most       *)
(* recent such entry and is not taken for a video id.                      *)
(***************************************************************************)
C21_FilenameResolved ==
    [][(Resolved /\ Head(args.remixFrom) # "@" /\ Matches(args.remixFrom) # {}) =>
          /\ resolveErr' = "" /\ pc' = "submit"
          /\ \E i \in Matches(args.remixFrom) :
                /\ \A j \in Matches(args.remixFrom) : i <= j
                /\ resolvedID' = hist.Videos[i].ID]_vars

\* the older main.go, on the same references and histories, does what C21
\* says
C21_FilenameResolvedInOlderMain ==
    (hist.state = "ok" /\ Head(args.remixFrom) # "@" /\ Matches(args.remixFrom) # {}) =>
        \E i \in Matches(args.remixFrom) :
            /\ \A j \in Matches(args.remixFrom) : i <= j
            /\ resolveRemixVideoID_byFilename(hist, args.remixFrom, "ok")
                  = [err |-> "", id |-> hist.Videos[i].ID]

(***************************************************************************)
(* C22: loading the history when the history file does not exist returns   *)
(* an empty list and no error; an append performed when no file exists     *)
(* succeeds (its own writes succeeding) and leaves a history that holds    *)
(* exactly the new entry.                                                  *)
(***************************************************************************)
C22_MissingHistoryIsEmpty ==
    /\ [](hist.state = "missing" =>
            /\ loadHistory(hist, "ok") = [err |-> "", Videos |-> << >>]
            /\ pc = "record" =>
                  addToHistory(hist, entryOf, "ok", "ok")
                      = [err |-> "", file |-> HistOf(<<entryOf>>)])
    /\ [][(pc = "record" /\ pc' = "exit" /\ hist.state = "missing"
              /\ stderr' # HistoryWarning) =>
            /\ hist' = HistOf(<<entryOf>>)
            /\ exitCode' = 0]_vars

\* a first run on a machine without a history file: one entry afterwards
C22_Witness ==
    /\ pc = "exit" /\ exitCode = 0 /\ stderr # HistoryWarning
    /\ hist0 = HistMissing
    /\ hist = HistOf(<<entryOf>>)
    /\ appends = 1

C25_StdoutOnlyVideo ==
    \A i \in 1..Len(stdout) : stdout[i][1] = "video"

\* what the code keeps of C25: apart from the banner of the interactive
\* prompt, which is the first thing on stdout of a run without --prompt,
\* stdout carries video bytes only, and only for the destination "-"
C25_StdoutVideoAfterBanner ==
    /\ \A i \in 1..Len(stdout) :
          \/ stdout[i][1] = "video" /\ output = s_dash
          \/ i = 1 /\ args.prompt = s_empty /\ stdout[i] = Text("Enter your video prompt: ")
    /\ (args.prompt = s_empty /\ ~args.listHistory /\ args.apiKey
          /\ pc \notin {"start", "validated"} /\ exitCode # 2) =>
              (stdout # << >> /\ stdout[1] = Text("Enter your video prompt: "))

\* the extensions the program knows, images and videos
ImageExts == {s_ext_jpg, s_ext_jpeg, s_ext_png, s_ext_webp}
VideoExts == {s_ext_mp4, s_ext_webm, s_ext_mov, s_ext_avi}
ExtOf(path) == ToLower(Ext(path))
\* the geometry the remote asks for
TargetW == IF args.portrait THEN 720 ELSE 1280
TargetH == IF args.portrait THEN 1280 ELSE 720
AtTarget(file) == file.w = TargetW /\ file.h = TargetH
\* the errors of processInputFile that come before any look at the content
NoAccess == {"file does not exist", "checking file"}

(***************************************************************************)
(* C26: an input file whose extension is neither a supported image         *)
(* extension nor a supported video extension is rejected, whatever its     *)
(* content: processInputFile returns an error and no bytes, and no create  *)
(* request is sent.                                                        *)
(***************************************************************************)
C26_UnknownExtensionRejected ==
    (processed.called /\ ExtOf(args.inputFile) \notin ImageExts \cup VideoExts) =>
        /\ processed.err # ""
        /\ processed.data = NoData
        /\ sent.create = 0

\* what the code does with an unknown extension: the file is taken for a
\* video. It is refused only if its content is no MP4 with a track header,
\* or if it needs a resize that cannot be done; otherwise its bytes are
\* submitted as application/octet-stream.
C26_UnknownExtensionTakenForVideo ==
    (processed.called /\ ExtOf(args.inputFile) \notin ImageExts \cup VideoExts) =>
        /\ processed.err \notin {"decoding image", "encoding image"}
        /\ (args.file.exists /\ args.file.content # "mp4") =>
              processed.err \in {"checking file", "getting video dimensions"}
        /\ processed.err = "" =>
              /\ processed.mimeType = "application/octet-stream"
              /\ processed.filename = Base(args.inputFile)
              /\ args.file.content = "mp4"
              /\ processed.data.w = TargetW /\ processed.data.h = TargetH

(***************************************************************************)
(* C27: for every decodable image and both target geometries, the image    *)
(* that is uploaded has exactly the target's width and height, whatever    *)
(* the aspect ratio of the input; conforming fails only where the file     *)
(* cannot be accessed, decoded or encoded.                                 *)
(***************************************************************************)
C27_ImageAtTarget ==
    (processed.called /\ ExtOf(args.inputFile) \in ImageExts) =>
        /\ processed.err \in {"", "decoding image", "encoding image"} \cup NoAccess
        /\ processed.err = "" =>
              /\ processed.data.w = TargetW
              /\ processed.data.h = TargetH
              /\ processed.data.from \in {"file", "encoder"}
              /\ processed.ffmpegRuns = 0 /\ processed.tmp = "none"
        /\ processed.data # NoData => processed.err = ""

\* a 50x80 JPEG conformed to 1280x720, and submitted
C27_Witness ==
    /\ processed.called /\ processed.err = ""
    /\ args.inputFile = <<"i","n",".","J","P","G">>
    /\ args.file = FileOf("jpeg", 50, 80, FALSE) /\ ~args.portrait
    /\ processed.data = EncodedBytes("jpeg", 1280, 720)
    /\ sent.create = 1

(***************************************************************************)
(* C28: conforming an image that is already at the target geometry returns *)
(* exactly the bytes of the source file.                                   *)
(***************************************************************************)
C28_ImageAtTargetPassedThrough ==
    (processed.called /\ ExtOf(args.inputFile) \in ImageExts /\ processed.err = ""
        /\ AtTarget(args.file)) =>
            processed.data = SourceBytes(args.file)

\* what the code does with an image at the target geometry: it is decoded
\* and encoded anew in the format of its extension; the result has the
\* bytes of the file only if the file came from that very encoder
C28_ImageAtTargetReencoded ==
    (processed.called /\ ExtOf(args.inputFile) \in ImageExts /\ processed.err = ""
        /\ AtTarget(args.file)) =>
            /\ processed.data \in {SourceBytes(args.file),
                                   EncodedBytes(encodeFormat(ExtOf(args.inputFile)).format,
                                                TargetW, TargetH)}
            /\ processed.data = SourceBytes(args.file) =>
                  /\ args.file.canonical
                  /\ args.file.content = encodeFormat(ExtOf(args.inputFile)).format

\* a video is given (by extension), its geometry can be read and differs
\* from the target
NeedsResize ==
    /\ ExtOf(args.inputFile) \notin ImageExts
    /\ args.file.exists /\ args.file.content = "mp4"
    /\ args.file.w > 0 /\ args.file.h > 0
    /\ ~AtTarget(args.file)

(***************************************************************************)
(* C29: when the geometry of a video differs from the target and ffmpeg is *)
(* not available, processInputFile fails with an error that states the     *)
(* actual and the required geometry; ffmpeg is not run and no temporary    *)
(* file is created. ffmpeg is run, and a temporary file created, only when *)
(* the geometry differs and ffmpeg was found.                              *)
(***************************************************************************)
C29_NoTranscoderNoAttempt ==
    processed.called =>
        /\ (NeedsResize /\ ~args.ffmpeg /\ processed.err \notin NoAccess \cup {"getting video dimensions"}) =>
              /\ processed.err = "video is WxH but needs to be WxH"
              /\ processed.current = <<args.file.w, args.file.h>>
              /\ processed.target = <<TargetW, TargetH>>
              /\ processed.ffmpegRuns = 0
              /\ processed.tmp = "none"
              /\ sent.create = 0
        /\ (processed.ffmpegRuns > 0 \/ processed.tmp # "none") =>
              /\ NeedsResize /\ args.ffmpeg
              /\ processed.ffmpegRuns = 1
        /\ processed.err = "video is WxH but needs to be WxH" => (NeedsResize /\ ~args.ffmpeg)

\* a 640x480 video, no ffmpeg on the path
C29_Witness ==
    /\ pc = "exit" /\ exitCode = 1 /\ stderr = "create job error"
    /\ args.file = FileOf("mp4", 640, 480, FALSE) /\ ~args.ffmpeg /\ args.portrait
    /\ processed.err = "video is WxH but needs to be WxH"
    /\ processed.current = <<640, 480>> /\ processed.target = <<720, 1280>>
    /\ processed.ffmpegRuns = 0 /\ processed.tmp = "none"

(***************************************************************************)
(* C30: every run terminates. Once main has reached the branch between     *)
(* create and remix, and given that the deadline expires and that every    *)
(* call of the client returns once its context is done, the run reaches    *)
(* its end (recorded, or failed), even if the remote never reports a       *)
(* terminal status or every poll fails.                                    *)
(***************************************************************************)
C30_Terminates == (pc = "branch") ~> (pc = "exit")

\* every poll the bound allows came back without a terminal status, and the
\* run ended on the context
C30_Witness ==
    /\ pc = "exit" /\ exitCode = 1 /\ stderr = cancelMessage
    /\ nPolls = MaxPolls /\ ctxDone
    /\ sent.status >= 1 /\ sent.download = 0

(***************************************************************************)
(* C31: once the context is done during polling, at most one further call  *)
(* of fetchVideoStatus is started before the run ends with a failure, and  *)
(* that call cannot lead to a download: its request is not sent, it        *)
(* returns the context's error, and the next select ends the run.          *)
(***************************************************************************)
C31_OnePollAfterCancel ==
    /\ [](afterCancel <= 1)
    /\ [](afterCancel = 1 =>
            /\ ctxDone
            /\ pc \in {"fetch", "select", "exit"}
            /\ pc = "fetch" => ~inflight
            /\ pc = "select" => (~timerReady /\ stderr = "poll error")
            /\ pc = "exit" => (exitCode = 1 /\ stderr = cancelMessage)
            /\ sent.download = 0 /\ appends = 0)
    /\ [][(ctxDone /\ pc = "select") =>
            /\ sent' = sent
            /\ pc' \in {"exit", "fetch"}
            /\ pc' = "exit" => exitCode' = 1]_vars

\* the timer and the context were both ready, the timer case was taken, the
\* call came back with the context's error and the run ended at the select
C31_Witness ==
    /\ afterCancel = 1 /\ pc = "exit" /\ exitCode = 1
    /\ stderr = cancelMessage
    /\ nPolls = 2 /\ sent.status = 1

\* every invocation is through with addToHistory
AllDone == \A p \in Procs : conc.proc[p].pc = "done"
\* addToHistory of invocation p returned nil
Succeeded(p) == conc.proc[p].pc = "done" /\ conc.proc[p].err = ""
\* the entries of a list, as a set
EntriesOf(videos) == {videos[i] : i \in 1..Len(videos)}
CapOf(n) == IF n > HistoryCap THEN HistoryCap ELSE n

(***************************************************************************)
(* C32: two invocations that append to the same history file can           *)
(* interleave load and save so that both report success and the file holds *)
(* only one of the two new entries; appends that run one after the other   *)
(* never lose an entry: the file then holds both new entries, the later    *)
(* one first, in front of the old ones, cut to the cap.                    *)
(***************************************************************************)
C32_SerialAppendsKeepBoth ==
    /\ (AllDone /\ ~conc.overlap) =>
          /\ \A p \in Procs : Succeeded(p)
          /\ hist.state = "ok"
          /\ Len(hist.Videos) = CapOf(Len(hist0.Videos) + 2)
          /\ {hist.Videos[1], hist.Videos[2]} = {EntryOfProc(p) : p \in Procs}
          /\ \A i \in 3..Len(hist.Videos) : hist.Videos[i] = hist0.Videos[i - 2]
    /\ (AllDone /\ hist.state = "ok" /\ \E p \in Procs : EntryOfProc(p) \notin EntriesOf(hist.Videos)) =>
          conc.overlap

\* both invocations loaded the one-entry list before either saved: both
\* returned nil, and the file holds the old entry and one new entry
C32_Witness ==
    /\ AllDone /\ \A p \in Procs : Succeeded(p)
    /\ conc.overlap
    /\ hist0 = HistOf(Recent(1))
    /\ hist.state = "ok" /\ Len(hist.Videos) = 2
    /\ \E p \in Procs : EntryOfProc(p) \notin EntriesOf(hist.Videos)

(***************************************************************************)
(* C33: under any interleaving of two invocations, every load observes a   *)
(* well-formed list of at most 100 entries, each appended by some          *)
(* invocation and unmodified; a load never fails because another           *)
(* invocation is in the middle of a save.                                  *)
(***************************************************************************)
C33_LoadsNeverTorn ==
    \A p \in Procs :
        /\ conc.proc[p].err = ""
        /\ Len(conc.proc[p].loaded) <= HistoryCap
        /\ EntriesOf(conc.proc[p].loaded) \subseteq
              EntriesOf(hist0.Videos) \cup {EntryOfProc(q) : q \in Procs}

\* what the code keeps of C33: a load that succeeds returns a list of at
\* most 100 entries that were appended and are unmodified; a load fails
\* only when the file is truncated or torn by a save of the other
\* invocation
C33_LoadsWellFormedOrFailed ==
    \A p \in Procs :
        /\ conc.proc[p].err \in {"", "parsing history"}
        /\ Len(conc.proc[p].loaded) <= HistoryCap
        /\ EntriesOf(conc.proc[p].loaded) \subseteq
              EntriesOf(hist0.Videos) \cup {EntryOfProc(q) : q \in Procs}
        /\ conc.proc[p].err # "" =>
              \E q \in Procs \ {p} : conc.proc[q].pc \in {"writing", "done"}

\* a run ended successfully and its entry is the first of the stored list
Recorded ==
    /\ pc = "exit" /\ exitCode = 0 /\ ~args.listHistory
    /\ hist # hist0 /\ hist.state = "ok"

(***************************************************************************)
(* C34: the output file recorded in the history entry of a successful run  *)
(* is empty when the artifact was streamed only (destination "-"), and is  *)
(* the destination path otherwise.                                         *)
(***************************************************************************)
C34_StreamedRecordedEmpty ==
    Recorded =>
        Head(hist.Videos).OutputFile =
            IF args.output = s_dash THEN s_empty
            ELSE IF args.output = s_empty THEN jobID \o s_mp4
            ELSE args.output

\* what the code records: the value of output after the default was
\* applied, which for a streamed artifact is "-" and is never empty
C34_OutputRecordedAsGiven ==
    Recorded =>
        /\ Head(hist.Videos).OutputFile = output
        /\ Head(hist.Videos).OutputFile # s_empty
        /\ args.output = s_dash => Head(hist.Videos).OutputFile = s_dash

(***************************************************************************)
(* C35: after every call of processInputFile that took the ffmpeg path,    *)
(* whether ffmpeg and the read of its result succeeded or failed, the      *)
(* temporary output file no longer exists when the call returns.           *)
(***************************************************************************)
C35_TmpAlwaysRemoved ==
    (processed.called /\ (processed.ffmpegRuns > 0 \/ processed.tmp # "none")) =>
        processed.tmp = "removed"

\* what the code keeps of C35: the temporary file is removed once ffmpeg
\* has succeeded, whether the read of the result succeeds or fails; it is
\* left behind exactly when ffmpeg itself fails
C35_TmpRemovedAfterTranscode ==
    processed.called =>
        /\ processed.tmp = "left" <=>
              (processed.err = "resizing video with ffmpeg" /\ processed.ffmpegRuns = 1)
        /\ (processed.ffmpegRuns = 1 /\ processed.err \in {"", "reading resized video"}) =>
              processed.tmp = "removed"
        /\ processed.ffmpegRuns = 0 => processed.tmp = "none"

(***************************************************************************)
(* C36: the history file is modified only by the single append at the end  *)
(* of a successful run. Resolving a remix reference, listing the history   *)
(* and every run that ends in failure leave the file as it was.            *)
(***************************************************************************)
C36_HistoryOnlyAppended ==
    /\ [][hist' # hist =>
            /\ pc = "record" /\ pc' = "exit" /\ exitCode' = 0
            /\ appends = 0 /\ appends' = 1
            /\ dl.written = Len(dl.body)
            /\ ~args.listHistory]_vars
    /\ []((pc # "exit" \/ exitCode # 0 \/ args.listHistory) => hist = hist0)

\* a remix of "@last" was resolved from the history and submitted, the job
\* failed, and the history is as it was
C36_Witness ==
    /\ pc = "exit" /\ exitCode = 1 /\ stderr = "Job failed"
    /\ args.remixFrom = s_atlast /\ resolvedID = s_v0
    /\ hist0 = HistOf(<<e_old>>) /\ hist = hist0

(***************************************************************************)
(* C37: a remix reference that begins with "@" either resolves to the id   *)
(* of an entry of the history or makes the resolution fail (invalid index, *)
(* index out of range, empty history); it is never passed through as a     *)
(* literal id.                                                             *)
(***************************************************************************)
C37_AtReferenceNeverLiteral ==
    [][(Resolved /\ args.remixFrom # << >> /\ Head(args.remixFrom) = "@") =>
          /\ resolvedID' # args.remixFrom
          /\ \/ /\ resolveErr' = "" /\ pc' = "submit"
                /\ \E i \in 1..Len(hist.Videos) : resolvedID' = hist.Videos[i].ID
             \/ /\ resolveErr' \in {"invalid index", "index out of range", "no videos in history"}
                /\ pc' = "exit" /\ exitCode' = 1
                /\ resolvedID' = << >>
                /\ sent' = sent /\ ~inflight']_vars

\* "@x" on a history of two entries: invalid index, nothing sent
C37_Witness ==
    /\ args.remixFrom = <<"@","x">>
    /\ hist.state = "ok" /\ Len(hist.Videos) = 2
    /\ pc = "exit" /\ exitCode = 1 /\ resolveErr = "invalid index"
    /\ resolvedID = << >> /\ sent.remix = 0

(***************************************************************************)
(* C38: when one poll response carries both a non-empty error message and  *)
(* a success status, the error takes precedence: the run ends in failure   *)
(* with the job error, the progress is not completed, and no download      *)
(* request is issued.                                                      *)
(***************************************************************************)
C38_ErrorBeforeSuccess ==
    [][(pc = "fetch" /\ pc' # "fetch" /\ st'.kind = "ok"
          /\ st'.Error.present /\ st'.Error.Message # s_empty
          /\ InWords(st'.Status, SuccessWords)) =>
            /\ pc' = "exit" /\ exitCode' = 1 /\ stderr' = "job error"
            /\ bar' = bar
            /\ sent' = sent /\ sent.download = 0
            /\ hist' = hist /\ fs' = fs /\ stdout' = stdout]_vars

\* the first poll answered "succeeded" together with the error "boom"
C38_Witness ==
    /\ st.kind = "ok" /\ st.Status = s_succeeded /\ st.Error.Message = s_boom
    /\ nPolls = 1 /\ pc = "exit" /\ exitCode = 1 /\ stderr = "job error"
    /\ sent.download = 0 /\ bar = 0

(***************************************************************************)
(* C39: polling starts only with a non-empty job id, and every status      *)
(* request and the download request of a run are addressed to exactly the  *)
(* id the submit call returned. A 2xx submit response without id, or with  *)
(* a non-empty error message, fails the run before any poll.               *)
(***************************************************************************)
C39_RequestsAddressJob ==
    /\ [](pc \in {"select", "fetch", "download", "dl_do", "dl_copy", "record"} =>
            (jobID # s_empty /\ jobID = reqs.id /\ ~reqs.error))
    /\ [](\A u \in reqs.urls : u[2] # s_empty /\ u[2] = reqs.id /\ u[2] = jobID)
    /\ []((nPolls > 0 => <<"status", reqs.id>> \in reqs.urls)
          /\ (pc \in {"dl_do", "dl_copy", "record"} => <<"content", reqs.id>> \in reqs.urls))
    /\ [][(pc = "submit" /\ pc' # "submit" /\ (reqs'.id = s_empty \/ reqs'.error)) =>
            /\ pc' = "exit" /\ exitCode' = 1 /\ stderr' = "create job error"
            /\ nPolls' = 0 /\ reqs'.urls = {}
            /\ sent'.status = 0 /\ sent'.download = 0]_vars

\* a remix of v0 returned the job v1; v1 was polled and downloaded
C39_Witness ==
    /\ pc = "exit" /\ exitCode = 0
    /\ resolvedID = s_v0 /\ jobID = s_v1 /\ reqs.id = s_v1
    /\ reqs.urls = {<<"status", s_v1>>, <<"content", s_v1>>}
    /\ sent.remix = 1 /\ nPolls = 2
====
